---- MODULE Spec2Model ----
(***************************************************************************)
(* keepsake-mcp (src/src/index.ts): an MCP server whose tools each         *)
(* translate validated arguments into one HTTP call (fetchApi), and render *)
(* the JSON answer as one text block (toContent).                          *)
(*                                                                         *)
(* JavaScript strings are sequences of one-character strings, so that      *)
(* encodeURIComponent, String(), JSON.stringify and template literals are  *)
(* computed character by character.  JavaScript values are tagged records. *)
(***************************************************************************)
EXTENDS Integers, Sequences, FiniteSets, TLC

\* ------------------------------------------------------------------------
\* Bounds of the model
\* ------------------------------------------------------------------------
\* longest parameter mapping handed to qs in SpecQs
MaxParams == 2
\* largest number used as an argument or inside a response body
MaxNum == 5
\* number of invocations that can be in flight at once in Spec
MaxInv == 2
\* most optional arguments given in one invocation
MaxOptional == 2

\* ------------------------------------------------------------------------
\* Characters and strings
\* ------------------------------------------------------------------------
\* the printable ASCII characters of code 32 (space) to 95 (_), in code order
AsciiLow ==
  << " ", "!", "\"", "#", "$", "%", "&", "'", "(", ")", "*", "+", ",", "-", ".", "/",
     "0", "1", "2", "3", "4", "5", "6", "7", "8", "9", ":", ";", "<", "=", ">", "?",
     "@", "A", "B", "C", "D", "E", "F", "G", "H", "I", "J", "K", "L", "M", "N", "O",
     "P", "Q", "R", "S", "T", "U", "V", "W", "X", "Y", "Z", "[", "\\", "]", "^", "_" >>

\* the printable ASCII characters of code 97 (a) to 126 (~), in code order
AsciiHigh ==
  << "a", "b", "c", "d", "e", "f", "g", "h", "i", "j", "k", "l", "m", "n", "o",
     "p", "q", "r", "s", "t", "u", "v", "w", "x", "y", "z", "{", "|", "}", "~" >>

\* the line feed JSON.stringify puts between the members of an indented value
LF == "\n"

\* the character code (charCodeAt) of a character of the model's alphabet
CharCode(c) ==
  IF \E i \in 1..Len(AsciiLow) : AsciiLow[i] = c
  THEN 31 + (CHOOSE i \in 1..Len(AsciiLow) : AsciiLow[i] = c)
  ELSE 96 + (CHOOSE i \in 1..Len(AsciiHigh) : AsciiHigh[i] = c)

\* String.fromCharCode
CharOf(code) == IF code <= 95 THEN AsciiLow[code - 31] ELSE AsciiHigh[code - 96]

HexDigits == << "0", "1", "2", "3", "4", "5", "6", "7", "8", "9", "A", "B", "C", "D", "E", "F" >>

DecDigits == << "0", "1", "2", "3", "4", "5", "6", "7", "8", "9" >>

RECURSIVE Join(_, _)
\* Array.prototype.join
Join(ss, sep) ==
  IF ss = << >> THEN << >>
  ELSE IF Len(ss) = 1 THEN ss[1]
  ELSE ss[1] \o sep \o Join(Tail(ss), sep)

StartsWith(s, p) == Len(s) >= Len(p) /\ SubSeq(s, 1, Len(p)) = p

RECURSIVE DecString(_)
\* the decimal digits of a natural number
DecString(n) ==
  IF n < 10 THEN << DecDigits[n + 1] >>
  ELSE DecString(n \div 10) \o << DecDigits[(n % 10) + 1] >>

\* Number.prototype.toString of an integer
NumberToString(n) == IF n < 0 THEN << "-" >> \o DecString(0 - n) ELSE DecString(n)

\* ------------------------------------------------------------------------
\* JavaScript values
\* ------------------------------------------------------------------------
Undefined == [t |-> "undefined"]
Null == [t |-> "null"]
Bool(b) == [t |-> "boolean", v |-> b]
Num(n) == [t |-> "number", v |-> n]
Str(s) == [t |-> "string", v |-> s]
\* an object is the sequence of its own enumerable <<key, value>> entries, in
\* insertion order; the keys are distinct
Obj(entries) == [t |-> "object", v |-> entries]
Arr(items) == [t |-> "array", v |-> items]

IsNullish(x) == x.t \in {"undefined", "null"}

\* ToBoolean
Truthy(x) ==
  CASE x.t = "undefined" -> FALSE
    [] x.t = "null" -> FALSE
    [] x.t = "boolean" -> x.v
    [] x.t = "number" -> x.v # 0
    [] x.t = "string" -> x.v # << >>
    [] OTHER -> TRUE

HasKey(o, k) == o.t = "object" /\ \E i \in 1..Len(o.v) : o.v[i][1] = k

\* o.k for a value that is not null or undefined: the entry of an object,
\* undefined for a missing key and for the primitives and arrays (none of the
\* keys read by the program is a built-in property of theirs)
Get(o, k) ==
  IF HasKey(o, k)
  THEN o.v[CHOOSE i \in 1..Len(o.v) : o.v[i][1] = k][2]
  ELSE Undefined

RECURSIVE StringOf(_)
RECURSIVE StringsOf(_)
\* String(x), also the conversion of `${x}` in a template literal
StringOf(x) ==
  CASE x.t = "string" -> x.v
    [] x.t = "number" -> NumberToString(x.v)
    [] x.t = "boolean" -> IF x.v THEN << "t", "r", "u", "e" >> ELSE << "f", "a", "l", "s", "e" >>
    [] x.t = "null" -> << "n", "u", "l", "l" >>
    [] x.t = "undefined" -> << "u", "n", "d", "e", "f", "i", "n", "e", "d" >>
    [] x.t = "array" -> Join(StringsOf(x.v), << "," >>)
    [] OTHER -> << "[", "o", "b", "j", "e", "c", "t", " ", "O", "b", "j", "e", "c", "t", "]" >>

\* the element strings of Array.prototype.toString: empty for null and undefined
StringsOf(items) ==
  IF items = << >> THEN << >>
  ELSE << (IF IsNullish(Head(items)) THEN << >> ELSE StringOf(Head(items))) >>
       \o StringsOf(Tail(items))

\* ------------------------------------------------------------------------
\* encodeURIComponent
\* ------------------------------------------------------------------------
Letters == { AsciiLow[i] : i \in 34..59 } \cup { AsciiHigh[i] : i \in 1..26 }

\* the characters encodeURIComponent leaves alone: A-Z a-z 0-9 and - _ . ! ~ * ( ) and the apostrophe
UriUnreserved ==
  Letters \cup { DecDigits[i] : i \in 1..10 } \cup { "-", "_", ".", "!", "~", "*", "'", "(", ")" }

\* %XX, the two upper-case hexadecimal digits of the character's code
PercentEncode(c) ==
  << "%", HexDigits[(CharCode(c) \div 16) + 1], HexDigits[(CharCode(c) % 16) + 1] >>

RECURSIVE encodeURIComponent(_)
encodeURIComponent(s) ==
  IF s = << >> THEN << >>
  ELSE (IF Head(s) \in UriUnreserved THEN << Head(s) >> ELSE PercentEncode(Head(s)))
       \o encodeURIComponent(Tail(s))

\* ------------------------------------------------------------------------
\* qs (src/src/index.ts 72-81)
\* ------------------------------------------------------------------------
\* mutant of QsIncluded: the test written as if (v)
QsIncludedTruthy(x) == Truthy(x)

\* the test of line 76: v !== undefined && v !== null && v !== ""
QsIncluded(x) == ~(x.t = "undefined") /\ ~(x.t = "null") /\ ~(x.t = "string" /\ x.v = << >>)

RECURSIVE QsParts(_)
\* the array parts after the loop of lines 75-79 over Object.entries(params)
QsParts(entries) ==
  IF entries = << >> THEN << >>
  ELSE (IF QsIncluded(Head(entries)[2])
        THEN << encodeURIComponent(Head(entries)[1]) \o << "=" >>
                  \o encodeURIComponent(StringOf(Head(entries)[2])) >>
        ELSE << >>)
       \o QsParts(Tail(entries))

\* mutant of QsResult: the prefix added without looking at parts.length
QsResultAlwaysPrefixed(parts) == << "?" >> \o Join(parts, << "&" >>)

\* line 80: parts.length ? `?${parts.join("&")}` : ""
QsResult(parts) == IF Len(parts) # 0 THEN << "?" >> \o Join(parts, << "&" >>) ELSE << >>

qs(params) == QsResult(QsParts(params.v))

\* ------------------------------------------------------------------------
\* JSON.stringify
\* ------------------------------------------------------------------------
RECURSIVE QuoteChars(_)
\* the escapes of QuoteJSONString for the characters of the alphabet
QuoteChars(s) ==
  IF s = << >> THEN << >>
  ELSE (CASE Head(s) = "\"" -> << "\\", "\"" >>
          [] Head(s) = "\\" -> << "\\", "\\" >>
          [] Head(s) = LF -> << "\\", "n" >>
          [] OTHER -> << Head(s) >>)
       \o QuoteChars(Tail(s))

QuoteJSONString(s) == << "\"" >> \o QuoteChars(s) \o << "\"" >>

RECURSIVE JSONSerialize(_, _, _)
RECURSIVE JSONMembers(_, _, _)
RECURSIVE JSONItems(_, _, _)

\* SerializeJSONProperty: the text of value x, with gap the indentation unit
\* (empty for the compact form) and indent the current indentation
JSONSerialize(x, gap, indent) ==
  CASE x.t = "null" -> << "n", "u", "l", "l" >>
    [] x.t = "boolean" -> StringOf(x)
    [] x.t = "number" -> StringOf(x)
    [] x.t = "string" -> QuoteJSONString(x.v)
    [] x.t = "object" ->
         LET partial == JSONMembers(x.v, gap, indent \o gap)
         IN  IF partial = << >> THEN << "{", "}" >>
             ELSE IF gap = << >> THEN << "{" >> \o Join(partial, << "," >>) \o << "}" >>
             ELSE << "{", LF >> \o indent \o gap
                    \o Join(partial, << ",", LF >> \o indent \o gap)
                    \o << LF >> \o indent \o << "}" >>
    [] x.t = "array" ->
         LET partial == JSONItems(x.v, gap, indent \o gap)
         IN  IF partial = << >> THEN << "[", "]" >>
             ELSE IF gap = << >> THEN << "[" >> \o Join(partial, << "," >>) \o << "]" >>
             ELSE << "[", LF >> \o indent \o gap
                    \o Join(partial, << ",", LF >> \o indent \o gap)
                    \o << LF >> \o indent \o << "]" >>

\* the "key": value members of an object; a member whose value is undefined
\* is left out
JSONMembers(entries, gap, indent) ==
  IF entries = << >> THEN << >>
  ELSE (IF Head(entries)[2].t = "undefined" THEN << >>
        ELSE << QuoteJSONString(Head(entries)[1]) \o << ":" >>
                  \o (IF gap = << >> THEN << >> ELSE << " " >>)
                  \o JSONSerialize(Head(entries)[2], gap, indent) >>)
       \o JSONMembers(Tail(entries), gap, indent)

\* the elements of an array; an undefined element is written null
JSONItems(items, gap, indent) ==
  IF items = << >> THEN << >>
  ELSE << (IF Head(items).t = "undefined" THEN << "n", "u", "l", "l" >>
           ELSE JSONSerialize(Head(items), gap, indent)) >>
       \o JSONItems(Tail(items), gap, indent)

RECURSIVE Spaces(_)
Spaces(n) == IF n = 0 THEN << >> ELSE << " " >> \o Spaces(n - 1)

\* JSON.stringify(x) and JSON.stringify(x, null, space) of a value that is
\* not undefined
JSONstringify(x, space) == JSONSerialize(x, Spaces(space), << >>)

\* ------------------------------------------------------------------------
\* Property names
\* ------------------------------------------------------------------------
\* the property names the program reads or writes, as strings
K ==
  [ error |-> << "e", "r", "r", "o", "r" >>,
    code |-> << "c", "o", "d", "e" >>,
    message |-> << "m", "e", "s", "s", "a", "g", "e" >>,
    data |-> << "d", "a", "t", "a" >>,
    meta |-> << "m", "e", "t", "a" >>,
    total |-> << "t", "o", "t", "a", "l" >>,
    limit |-> << "l", "i", "m", "i", "t" >>,
    offset |-> << "o", "f", "f", "s", "e", "t" >>,
    sort |-> << "s", "o", "r", "t" >>,
    order |-> << "o", "r", "d", "e", "r" >>,
    include_last_interaction |-> << "i", "n", "c", "l", "u", "d", "e", "_", "l", "a", "s", "t", "_", "i", "n", "t", "e", "r", "a", "c", "t", "i", "o", "n" >>,
    id |-> << "i", "d" >>,
    entries_limit |-> << "e", "n", "t", "r", "i", "e", "s", "_", "l", "i", "m", "i", "t" >>,
    q |-> << "q" >>,
    permanent |-> << "p", "e", "r", "m", "a", "n", "e", "n", "t" >>,
    type |-> << "t", "y", "p", "e" >>,
    contact_id |-> << "c", "o", "n", "t", "a", "c", "t", "_", "i", "d" >>,
    from |-> << "f", "r", "o", "m" >>,
    to |-> << "t", "o" >>,
    status |-> << "s", "t", "a", "t", "u", "s" >>,
    date_type |-> << "d", "a", "t", "e", "_", "t", "y", "p", "e" >>,
    date |-> << "d", "a", "t", "e" >>,
    pinned |-> << "p", "i", "n", "n", "e", "d" >>,
    archived |-> << "a", "r", "c", "h", "i", "v", "e", "d" >>,
    since |-> << "s", "i", "n", "c", "e" >>,
    first_name |-> << "f", "i", "r", "s", "t", "_", "n", "a", "m", "e" >>,
    last_name |-> << "l", "a", "s", "t", "_", "n", "a", "m", "e" >>,
    email |-> << "e", "m", "a", "i", "l" >>,
    phone |-> << "p", "h", "o", "n", "e" >>,
    company |-> << "c", "o", "m", "p", "a", "n", "y" >>,
    notes |-> << "n", "o", "t", "e", "s" >>,
    name |-> << "n", "a", "m", "e" >>,
    website |-> << "w", "e", "b", "s", "i", "t", "e" >>,
    address |-> << "a", "d", "d", "r", "e", "s", "s" >>,
    content |-> << "c", "o", "n", "t", "e", "n", "t" >>,
    contact_ids |-> << "c", "o", "n", "t", "a", "c", "t", "_", "i", "d", "s" >>,
    title |-> << "t", "i", "t", "l", "e" >>,
    description |-> << "d", "e", "s", "c", "r", "i", "p", "t", "i", "o", "n" >>,
    priority |-> << "p", "r", "i", "o", "r", "i", "t", "y" >>,
    recurrence_type |-> << "r", "e", "c", "u", "r", "r", "e", "n", "c", "e", "_", "t", "y", "p", "e" >>,
    recurrence_interval |-> << "r", "e", "c", "u", "r", "r", "e", "n", "c", "e", "_", "i", "n", "t", "e", "r", "v", "a", "l" >>,
    is_pinned |-> << "i", "s", "_", "p", "i", "n", "n", "e", "d" >>,
    note |-> << "n", "o", "t", "e" >>,
    entity_type |-> << "e", "n", "t", "i", "t", "y", "_", "t", "y", "p", "e" >>,
    entity_id |-> << "e", "n", "t", "i", "t", "y", "_", "i", "d" >> ]

\* ------------------------------------------------------------------------
\* Configuration (src/src/index.ts 11-21) and fetchApi (33-56)
\* ------------------------------------------------------------------------
VARIABLES
  API_KEY,      \* process.env.KEEPSAKE_API_KEY || ""
  phase,        \* how far the module's top-level code has run
  exitCode,     \* the status of process.exit, -1 while the process runs
  registered,   \* the names passed to server.registerTool so far
  inv,          \* the invocations of tool handlers, by slot
  qsIn, qsOut,  \* argument and result of a call of qs (SpecQs)
  rIn, rOut,    \* an outcome of the remote call and its rendering (SpecRender)
  fIn, fOut     \* arguments of a call of fetchApi and its request (SpecFetch)

sysVars == << API_KEY, phase, exitCode, registered >>
pureVars == << qsIn, qsOut, rIn, rOut, fIn, fOut >>
vars == << API_KEY, phase, exitCode, registered, inv, qsIn, qsOut, rIn, rOut, fIn, fOut >>

\* line 11-12, with KEEPSAKE_API_URL unset
API_BASE == << "h", "t", "t", "p", "s", ":", "/", "/", "a", "p", "p", ".", "k", "e", "e", "p", "s", "a", "k", "e", ".", "p", "l", "a", "c", "e", "/", "a", "p", "i", "/", "v", "1" >>

\* the default value of fetchApi's parameter method (line 35)
DefaultMethod == "GET"

\* mutant of headers: no Authorization header
headersNoAuth == << << << "C", "o", "n", "t", "e", "n", "t", "-", "T", "y", "p", "e" >>, << "a", "p", "p", "l", "i", "c", "a", "t", "i", "o", "n", "/", "j", "s", "o", "n" >> >> >>

\* lines 39-42: the headers of every request
headers ==
  << << << "A", "u", "t", "h", "o", "r", "i", "z", "a", "t", "i", "o", "n" >>, << "B", "e", "a", "r", "e", "r", " " >> \o API_KEY >>,
     << << "C", "o", "n", "t", "e", "n", "t", "-", "T", "y", "p", "e" >>, << "a", "p", "p", "l", "i", "c", "a", "t", "i", "o", "n", "/", "j", "s", "o", "n" >> >> >>

\* mutant of fetchApi: the body attached whenever one is given (if (body))
fetchApiBodyOnGet(path, method, body) ==
  [ url |-> API_BASE \o path,
    method |-> method,
    headers |-> headers,
    body |-> IF Truthy(body) THEN Str(JSONstringify(body, 0)) ELSE Undefined ]

\* lines 38-47: the request handed to fetch(url, init); init.body stays
\* undefined unless body is truthy and the method is not GET
fetchApi(path, method, body) ==
  [ url |-> API_BASE \o path,
    method |-> method,
    headers |-> headers,
    body |-> IF Truthy(body) /\ method # "GET"
             THEN Str(JSONstringify(body, 0))
             ELSE Undefined ]

\* Error.prototype.toString, which String(err) calls for an Error
ErrorToString(err) ==
  IF err.name = << >> THEN err.message
  ELSE IF err.message = << >> THEN err.name
  ELSE err.name \o << ":", " " >> \o err.message

\* mutant of fetchApiCatch: code and message returned without the error wrapper
fetchApiCatchFlat(err) ==
  Obj(<< << K.code, Str(<< "N", "E", "T", "W", "O", "R", "K", "_", "E", "R", "R", "O", "R" >>) >>, << K.message, Str(ErrorToString(err)) >> >>)

\* lines 53-55: the value returned from the catch block
fetchApiCatch(err) ==
  Obj(<< << K.error, Obj(<< << K.code, Str(<< "N", "E", "T", "W", "O", "R", "K", "_", "E", "R", "R", "O", "R" >>) >>,
                            << K.message, Str(ErrorToString(err)) >> >>) >> >>)

\* mutant of fetchApiReturn: a body that is not JSON reported under its own
\* code
fetchApiReturnParseError(outcome) ==
  IF outcome.kind = "json" THEN outcome.body
  ELSE IF outcome.kind = "badjson"
  THEN Obj(<< << K.error, Obj(<< << K.code, Str(<< "P", "A", "R", "S", "E", "_", "E", "R", "R", "O", "R" >>) >>,
                                 << K.message, Str(ErrorToString(outcome.err)) >> >>) >> >>)
  ELSE fetchApiCatch(outcome.err)

\* lines 49-55: what fetchApi returns for an outcome of the remote call:
\* fetch rejected ("reject"), res.json() rejected ("badjson"), or res.json()
\* gave the parsed body ("json")
fetchApiReturn(outcome) ==
  IF outcome.kind = "json" THEN outcome.body ELSE fetchApiCatch(outcome.err)

\* ------------------------------------------------------------------------
\* toContent (src/src/index.ts 59-70)
\* ------------------------------------------------------------------------
\* the handler's promise is rejected (an exception left the handler)
Threw(e) == [threw |-> TRUE, error |-> e, content |-> << >>]
\* the handler's promise is fulfilled with { content }
Returned(c) == [threw |-> FALSE, error |-> << >>, content |-> c]

TextBlock(text) == [type |-> "text", text |-> text]

\* mutant of ErrorMsg: no branch for an error that is a bare string
ErrorMsgObjectOnly(error) ==
  IF Truthy(Get(error, K.message)) THEN Get(error, K.message)
  ELSE Str(JSONstringify(error, 0))

\* lines 61-64: the message of a truthy result.error
ErrorMsg(error) ==
  IF error.t = "string" THEN error
  ELSE IF Truthy(Get(error, K.message)) THEN Get(error, K.message)
  ELSE Str(JSONstringify(error, 0))

\* mutant of DataOrResult: result.data || result
DataOrResultFalsy(result) ==
  IF Truthy(Get(result, K.data)) THEN Get(result, K.data) ELSE result

\* line 68: result.data ?? result
DataOrResult(result) ==
  IF IsNullish(Get(result, K.data)) THEN result ELSE Get(result, K.data)

\* mutant of toContent: the test of line 60 written as "error" in result
toContentErrorKey(result) ==
  IF IsNullish(result) THEN Threw(<< "T", "y", "p", "e", "E", "r", "r", "o", "r" >>)
  ELSE IF HasKey(result, K.error)
  THEN Returned(<< TextBlock(<< "E", "r", "r", "o", "r", ":", " " >> \o StringOf(ErrorMsg(Get(result, K.error)))) >>)
  ELSE Returned(<< TextBlock(JSONstringify(DataOrResult(result), 2)) >>)

\* reading result.error of null or undefined is a TypeError (line 60)
toContent(result) ==
  IF IsNullish(result) THEN Threw(<< "T", "y", "p", "e", "E", "r", "r", "o", "r" >>)
  ELSE IF Truthy(Get(result, K.error))
  THEN Returned(<< TextBlock(<< "E", "r", "r", "o", "r", ":", " " >> \o StringOf(ErrorMsg(Get(result, K.error)))) >>)
  ELSE Returned(<< TextBlock(JSONstringify(DataOrResult(result), 2)) >>)

\* ------------------------------------------------------------------------
\* Tool handlers (src/src/index.ts 96-901)
\* ------------------------------------------------------------------------
RECURSIVE RestEntries(_, _)
RestEntries(entries, k) ==
  IF entries = << >> THEN << >>
  ELSE (IF Head(entries)[1] = k THEN << >> ELSE << Head(entries) >>)
       \o RestEntries(Tail(entries), k)

\* the rest object body of the parameter pattern { id, ...body }
RestOf(args, k) == Obj(RestEntries(args.v, k))

\* list_contacts handler, lines 110-112
list_contacts(args) ==
  fetchApi(<< "/", "c", "o", "n", "t", "a", "c", "t", "s" >> \o qs(Obj(<< << K.limit, Get(args, K.limit) >>, << K.offset, Get(args, K.offset) >>, << K.sort, Get(args, K.sort) >>, << K.order, Get(args, K.order) >>, << K.include_last_interaction, Get(args, K.include_last_interaction) >> >>)), DefaultMethod, Undefined)

\* get_contact handler, lines 126-128
get_contact(args) ==
  fetchApi(<< "/", "c", "o", "n", "t", "a", "c", "t", "s", "/" >> \o StringOf(Get(args, K.id)) \o qs(Obj(<< << K.entries_limit, Get(args, K.entries_limit) >> >>)), DefaultMethod, Undefined)

\* create_contact handler, lines 145-147
create_contact(args) ==
  fetchApi(<< "/", "c", "o", "n", "t", "a", "c", "t", "s" >>, "POST", args)

\* mutant of update_contact: the whole argument object sent as the body
update_contactWhole(args) ==
  fetchApi(<< "/", "c", "o", "n", "t", "a", "c", "t", "s", "/" >> \o StringOf(Get(args, K.id)), "PATCH", args)

\* update_contact handler, lines 165-167
update_contact(args) ==
  fetchApi(<< "/", "c", "o", "n", "t", "a", "c", "t", "s", "/" >> \o StringOf(Get(args, K.id)), "PATCH", RestOf(args, K.id))

\* delete_contact handler, lines 179-181
delete_contact(args) ==
  fetchApi(<< "/", "c", "o", "n", "t", "a", "c", "t", "s", "/" >> \o StringOf(Get(args, K.id)), "DELETE", Undefined)

\* search_contacts handler, lines 194-196
search_contacts(args) ==
  fetchApi(<< "/", "c", "o", "n", "t", "a", "c", "t", "s", "/", "s", "e", "a", "r", "c", "h" >> \o qs(Obj(<< << K.q, Get(args, K.q) >> >>)), DefaultMethod, Undefined)

\* list_companies handler, lines 216-218
list_companies(args) ==
  fetchApi(<< "/", "c", "o", "m", "p", "a", "n", "i", "e", "s" >> \o qs(Obj(<< << K.limit, Get(args, K.limit) >>, << K.offset, Get(args, K.offset) >>, << K.sort, Get(args, K.sort) >>, << K.order, Get(args, K.order) >> >>)), DefaultMethod, Undefined)

\* get_company handler, lines 231-233
get_company(args) ==
  fetchApi(<< "/", "c", "o", "m", "p", "a", "n", "i", "e", "s", "/" >> \o StringOf(Get(args, K.id)), DefaultMethod, Undefined)

\* create_company handler, lines 250-252
create_company(args) ==
  fetchApi(<< "/", "c", "o", "m", "p", "a", "n", "i", "e", "s" >>, "POST", args)

\* update_company handler, lines 270-272
update_company(args) ==
  fetchApi(<< "/", "c", "o", "m", "p", "a", "n", "i", "e", "s", "/" >> \o StringOf(Get(args, K.id)), "PATCH", RestOf(args, K.id))

\* mutant of delete_company: the flag sent through qs
delete_companyQs(args) ==
  fetchApi(<< "/", "c", "o", "m", "p", "a", "n", "i", "e", "s", "/" >> \o StringOf(Get(args, K.id))
             \o qs(Obj(<< << K.permanent, Get(args, K.permanent) >> >>)), "DELETE", Undefined)

\* delete_company handler, lines 285-288
delete_company(args) ==
  LET query == IF Truthy(Get(args, K.permanent)) THEN << "?", "p", "e", "r", "m", "a", "n", "e", "n", "t", "=", "t", "r", "u", "e" >> ELSE << >>
  IN  fetchApi(<< "/", "c", "o", "m", "p", "a", "n", "i", "e", "s", "/" >> \o StringOf(Get(args, K.id)) \o query, "DELETE", Undefined)

\* search_companies handler, lines 301-303
search_companies(args) ==
  fetchApi(<< "/", "c", "o", "m", "p", "a", "n", "i", "e", "s", "/", "s", "e", "a", "r", "c", "h" >> \o qs(Obj(<< << K.q, Get(args, K.q) >> >>)), DefaultMethod, Undefined)

\* list_entries handler, lines 328-332
list_entries(args) ==
  fetchApi(<< "/", "e", "n", "t", "r", "i", "e", "s" >> \o qs(Obj(<< << K.type, Get(args, K.type) >>, << K.contact_id, Get(args, K.contact_id) >>, << K.from, Get(args, K.from) >>, << K.to, Get(args, K.to) >>, << K.limit, Get(args, K.limit) >>, << K.offset, Get(args, K.offset) >> >>)), DefaultMethod, Undefined)

\* create_entry handler, lines 353-355
create_entry(args) ==
  fetchApi(<< "/", "e", "n", "t", "r", "i", "e", "s" >>, "POST", args)

\* update_entry handler, lines 377-379
update_entry(args) ==
  fetchApi(<< "/", "e", "n", "t", "r", "i", "e", "s", "/" >> \o StringOf(Get(args, K.id)), "PATCH", RestOf(args, K.id))

\* delete_entry handler, lines 391-393
delete_entry(args) ==
  fetchApi(<< "/", "e", "n", "t", "r", "i", "e", "s", "/" >> \o StringOf(Get(args, K.id)), "DELETE", Undefined)

\* list_tasks handler, lines 417-421
list_tasks(args) ==
  fetchApi(<< "/", "t", "a", "s", "k", "s" >> \o qs(Obj(<< << K.status, Get(args, K.status) >>, << K.date_type, Get(args, K.date_type) >>, << K.date, Get(args, K.date) >>, << K.limit, Get(args, K.limit) >>, << K.offset, Get(args, K.offset) >> >>)), DefaultMethod, Undefined)

\* create_task handler, lines 452-454
create_task(args) ==
  fetchApi(<< "/", "t", "a", "s", "k", "s" >>, "POST", args)

\* update_task handler, lines 474-476
update_task(args) ==
  fetchApi(<< "/", "t", "a", "s", "k", "s", "/" >> \o StringOf(Get(args, K.id)), "PATCH", RestOf(args, K.id))

\* delete_task handler, lines 488-490
delete_task(args) ==
  fetchApi(<< "/", "t", "a", "s", "k", "s", "/" >> \o StringOf(Get(args, K.id)), "DELETE", Undefined)

\* complete_task handler, lines 503-505
complete_task(args) ==
  fetchApi(<< "/", "t", "a", "s", "k", "s", "/" >> \o StringOf(Get(args, K.id)) \o << "/", "c", "o", "m", "p", "l", "e", "t", "e" >>, "POST", Undefined)

\* uncomplete_task handler, lines 517-519
uncomplete_task(args) ==
  fetchApi(<< "/", "t", "a", "s", "k", "s", "/" >> \o StringOf(Get(args, K.id)) \o << "/", "u", "n", "c", "o", "m", "p", "l", "e", "t", "e" >>, "POST", Undefined)

\* snooze_task handler, lines 536-538
snooze_task(args) ==
  fetchApi(<< "/", "t", "a", "s", "k", "s", "/" >> \o StringOf(Get(args, K.id)) \o << "/", "s", "n", "o", "o", "z", "e" >>, "POST", RestOf(args, K.id))

\* list_notes handler, lines 558-562
list_notes(args) ==
  fetchApi(<< "/", "n", "o", "t", "e", "s" >> \o qs(Obj(<< << K.pinned, Get(args, K.pinned) >>, << K.archived, Get(args, K.archived) >>, << K.limit, Get(args, K.limit) >>, << K.offset, Get(args, K.offset) >> >>)), DefaultMethod, Undefined)

\* create_note handler, lines 580-582
create_note(args) ==
  fetchApi(<< "/", "n", "o", "t", "e", "s" >>, "POST", args)

\* update_note handler, lines 595-597
update_note(args) ==
  fetchApi(<< "/", "n", "o", "t", "e", "s", "/" >> \o StringOf(Get(args, K.id)), "PATCH", RestOf(args, K.id))

\* delete_note handler, lines 610-613
delete_note(args) ==
  LET query == IF Truthy(Get(args, K.permanent)) THEN << "?", "p", "e", "r", "m", "a", "n", "e", "n", "t", "=", "t", "r", "u", "e" >> ELSE << >>
  IN  fetchApi(<< "/", "n", "o", "t", "e", "s", "/" >> \o StringOf(Get(args, K.id)) \o query, "DELETE", Undefined)

\* pin_note handler, lines 625-627
pin_note(args) ==
  fetchApi(<< "/", "n", "o", "t", "e", "s", "/" >> \o StringOf(Get(args, K.id)) \o << "/", "p", "i", "n" >>, "POST", Undefined)

\* archive_note handler, lines 639-641
archive_note(args) ==
  fetchApi(<< "/", "n", "o", "t", "e", "s", "/" >> \o StringOf(Get(args, K.id)) \o << "/", "a", "r", "c", "h", "i", "v", "e" >>, "POST", Undefined)

\* restore_note handler, lines 653-655
restore_note(args) ==
  fetchApi(<< "/", "n", "o", "t", "e", "s", "/" >> \o StringOf(Get(args, K.id)) \o << "/", "r", "e", "s", "t", "o", "r", "e" >>, "POST", Undefined)

\* list_days handler, lines 674-676
list_days(args) ==
  fetchApi(<< "/", "d", "a", "y", "s" >> \o qs(Obj(<< << K.from, Get(args, K.from) >>, << K.to, Get(args, K.to) >>, << K.limit, Get(args, K.limit) >>, << K.offset, Get(args, K.offset) >> >>)), DefaultMethod, Undefined)

\* get_day handler, lines 688-690
get_day(args) ==
  fetchApi(<< "/", "d", "a", "y", "s", "/" >> \o StringOf(Get(args, K.date)), DefaultMethod, Undefined)

\* update_day handler, lines 704-706
update_day(args) ==
  fetchApi(<< "/", "d", "a", "y", "s" >>, "POST", args)

\* list_tags handler, lines 723-725
list_tags(args) ==
  fetchApi(<< "/", "t", "a", "g", "s" >> \o qs(Obj(<< << K.limit, Get(args, K.limit) >>, << K.offset, Get(args, K.offset) >> >>)), DefaultMethod, Undefined)

\* get_tag_items handler, lines 738-740
get_tag_items(args) ==
  fetchApi(<< "/", "t", "a", "g", "s", "/" >> \o StringOf(Get(args, K.id)) \o << "/", "i", "t", "e", "m", "s" >>, DefaultMethod, Undefined)

\* link_tag handler, lines 756-758
link_tag(args) ==
  fetchApi(<< "/", "t", "a", "g", "s", "/" >> \o StringOf(Get(args, K.id)) \o << "/", "l", "i", "n", "k" >>, "POST", RestOf(args, K.id))

\* unlink_tag handler, lines 774-776
unlink_tag(args) ==
  fetchApi(<< "/", "t", "a", "g", "s", "/" >> \o StringOf(Get(args, K.id)) \o << "/", "u", "n", "l", "i", "n", "k" >>, "POST", RestOf(args, K.id))

\* get_contact_timeline handler, lines 801-805
get_contact_timeline(args) ==
  fetchApi(<< "/", "c", "o", "n", "t", "a", "c", "t", "s", "/" >> \o StringOf(Get(args, K.id)) \o << "/", "t", "i", "m", "e", "l", "i", "n", "e" >> \o qs(Obj(<< << K.type, Get(args, K.type) >>, << K.from, Get(args, K.from) >>, << K.to, Get(args, K.to) >>, << K.limit, Get(args, K.limit) >>, << K.offset, Get(args, K.offset) >> >>)), DefaultMethod, Undefined)

\* get_tasks_today handler, lines 820-822
get_tasks_today(args) ==
  fetchApi(<< "/", "t", "a", "s", "k", "s", "/", "t", "o", "d", "a", "y" >>, DefaultMethod, Undefined)

\* get_tasks_overdue handler, lines 833-835
get_tasks_overdue(args) ==
  fetchApi(<< "/", "t", "a", "s", "k", "s", "/", "o", "v", "e", "r", "d", "u", "e" >>, DefaultMethod, Undefined)

\* get_changelog handler, lines 857-859
get_changelog(args) ==
  fetchApi(<< "/", "c", "h", "a", "n", "g", "e", "l", "o", "g" >> \o qs(Obj(<< << K.since, Get(args, K.since) >>, << K.type, Get(args, K.type) >>, << K.limit, Get(args, K.limit) >> >>)), DefaultMethod, Undefined)

\* mutant of search: the search sent as a POST with the arguments as body
searchPost(args) ==
  fetchApi(<< "/", "s", "e", "a", "r", "c", "h" >>, "POST", args)

\* search handler, lines 881-883
search(args) ==
  fetchApi(<< "/", "s", "e", "a", "r", "c", "h" >> \o qs(Obj(<< << K.q, Get(args, K.q) >>, << K.type, Get(args, K.type) >>, << K.limit, Get(args, K.limit) >> >>)), DefaultMethod, Undefined)

\* get_agent_instructions handler, lines 898-900
get_agent_instructions(args) ==
  fetchApi(<< "/", "a", "g", "e", "n", "t", "/", "i", "n", "s", "t", "r", "u", "c", "t", "i", "o", "n", "s" >>, DefaultMethod, Undefined)

Handler(op, args) ==
  CASE op = "list_contacts" -> list_contacts(args)
    [] op = "get_contact" -> get_contact(args)
    [] op = "create_contact" -> create_contact(args)
    [] op = "update_contact" -> update_contact(args)
    [] op = "delete_contact" -> delete_contact(args)
    [] op = "search_contacts" -> search_contacts(args)
    [] op = "list_companies" -> list_companies(args)
    [] op = "get_company" -> get_company(args)
    [] op = "create_company" -> create_company(args)
    [] op = "update_company" -> update_company(args)
    [] op = "delete_company" -> delete_company(args)
    [] op = "search_companies" -> search_companies(args)
    [] op = "list_entries" -> list_entries(args)
    [] op = "create_entry" -> create_entry(args)
    [] op = "update_entry" -> update_entry(args)
    [] op = "delete_entry" -> delete_entry(args)
    [] op = "list_tasks" -> list_tasks(args)
    [] op = "create_task" -> create_task(args)
    [] op = "update_task" -> update_task(args)
    [] op = "delete_task" -> delete_task(args)
    [] op = "complete_task" -> complete_task(args)
    [] op = "uncomplete_task" -> uncomplete_task(args)
    [] op = "snooze_task" -> snooze_task(args)
    [] op = "list_notes" -> list_notes(args)
    [] op = "create_note" -> create_note(args)
    [] op = "update_note" -> update_note(args)
    [] op = "delete_note" -> delete_note(args)
    [] op = "pin_note" -> pin_note(args)
    [] op = "archive_note" -> archive_note(args)
    [] op = "restore_note" -> restore_note(args)
    [] op = "list_days" -> list_days(args)
    [] op = "get_day" -> get_day(args)
    [] op = "update_day" -> update_day(args)
    [] op = "list_tags" -> list_tags(args)
    [] op = "get_tag_items" -> get_tag_items(args)
    [] op = "link_tag" -> link_tag(args)
    [] op = "unlink_tag" -> unlink_tag(args)
    [] op = "get_contact_timeline" -> get_contact_timeline(args)
    [] op = "get_tasks_today" -> get_tasks_today(args)
    [] op = "get_tasks_overdue" -> get_tasks_overdue(args)
    [] op = "get_changelog" -> get_changelog(args)
    [] op = "search" -> search(args)
    [] op = "get_agent_instructions" -> get_agent_instructions(args)

ToolNames ==
  { "list_contacts",
    "get_contact",
    "create_contact",
    "update_contact",
    "delete_contact",
    "search_contacts",
    "list_companies",
    "get_company",
    "create_company",
    "update_company",
    "delete_company",
    "search_companies",
    "list_entries",
    "create_entry",
    "update_entry",
    "delete_entry",
    "list_tasks",
    "create_task",
    "update_task",
    "delete_task",
    "complete_task",
    "uncomplete_task",
    "snooze_task",
    "list_notes",
    "create_note",
    "update_note",
    "delete_note",
    "pin_note",
    "archive_note",
    "restore_note",
    "list_days",
    "get_day",
    "update_day",
    "list_tags",
    "get_tag_items",
    "link_tag",
    "unlink_tag",
    "get_contact_timeline",
    "get_tasks_today",
    "get_tasks_overdue",
    "get_changelog",
    "search",
    "get_agent_instructions" }

ReadOnlyTools ==
  { "list_contacts",
    "get_contact",
    "search_contacts",
    "list_companies",
    "get_company",
    "search_companies",
    "list_entries",
    "list_tasks",
    "list_notes",
    "list_days",
    "get_day",
    "list_tags",
    "get_tag_items",
    "get_contact_timeline",
    "get_tasks_today",
    "get_tasks_overdue",
    "get_changelog",
    "search",
    "get_agent_instructions" }

\* ------------------------------------------------------------------------
\* Arguments accepted by the input schemas
\* ------------------------------------------------------------------------
RECURSIVE ObjectsOver(_)
\* the objects that give each field one of its values, or leave it out when
\* it is optional; entries come in the order of the fields
ObjectsOver(fields) ==
  IF fields = << >> THEN { Obj(<< >>) }
  ELSE LET f == Head(fields)
           rest == ObjectsOver(Tail(fields))
       IN  { Obj(<< << f.k, v >> >> \o r.v) : v \in f.vals, r \in rest }
           \cup (IF f.opt THEN rest ELSE { })

RECURSIVE ObjectsWithin(_, _)
\* the same, with at most n optional fields given
ObjectsWithin(fields, n) ==
  IF fields = << >> THEN { Obj(<< >>) }
  ELSE LET f == Head(fields)
       IN  (IF f.opt THEN ObjectsWithin(Tail(fields), n) ELSE { })
           \cup (IF f.opt /\ n = 0 THEN { }
                 ELSE { Obj(<< << f.k, v >> >> \o r.v) :
                          v \in f.vals,
                          r \in ObjectsWithin(Tail(fields), IF f.opt THEN n - 1 ELSE n) })

\* the argument objects of a schema, within the bounds
ArgsOver(fields) == ObjectsWithin(fields, MaxOptional)

Uuid1 == << "1", "2", "3", "e", "4", "5", "6", "7", "-", "e", "8", "9", "b", "-", "4", "2", "d", "3", "-", "a", "4", "5", "6", "-", "4", "2", "6", "6", "1", "4", "1", "7", "4", "0", "0", "0" >>

\* z.string().uuid()
Uuids == { Str(Uuid1) }
\* z.string(): the empty string and one with characters that are reserved in a URL
Strings == { Str(<< >>), Str(<< "a", "/", "b", "?", "c", "=", "d", "&", "e", " ", "f" >>) }
\* z.number().int().positive()
PositiveInts == { Num(MaxNum) }
\* z.number().int().nonnegative()
NonNegativeInts == { Num(0), Num(MaxNum) }
\* z.number().int()
Ints == { Num(0 - 1), Num(MaxNum) }
\* z.boolean()
Booleans == { Bool(FALSE), Bool(TRUE) }
\* z.array(z.string().uuid())
UuidArrays == { Arr(<< >>), Arr(<< Str(Uuid1) >>) }

\* the schema-valid argument objects of a tool, within the bounds
ValidArgs(op) ==
  CASE
    \* list_contacts (inputSchema, lines 101-107)
       op = "list_contacts" ->
      ArgsOver(<< [k |-> K.limit, vals |-> PositiveInts, opt |-> TRUE],
                  [k |-> K.offset, vals |-> NonNegativeInts, opt |-> TRUE],
                  [k |-> K.sort, vals |-> Strings, opt |-> TRUE],
                  [k |-> K.order, vals |-> { Str(<< "a", "s", "c" >>) }, opt |-> TRUE],
                  [k |-> K.include_last_interaction, vals |-> Booleans, opt |-> TRUE] >>)
    \* get_contact (inputSchema, lines 120-123)
    [] op = "get_contact" ->
      ArgsOver(<< [k |-> K.id, vals |-> Uuids, opt |-> FALSE],
                  [k |-> K.entries_limit, vals |-> Ints, opt |-> TRUE] >>)
    \* create_contact (inputSchema, lines 135-142)
    [] op = "create_contact" ->
      ArgsOver(<< [k |-> K.first_name, vals |-> Strings, opt |-> FALSE],
                  [k |-> K.last_name, vals |-> Strings, opt |-> FALSE],
                  [k |-> K.email, vals |-> Strings, opt |-> TRUE],
                  [k |-> K.phone, vals |-> Strings, opt |-> TRUE],
                  [k |-> K.company, vals |-> Strings, opt |-> TRUE],
                  [k |-> K.notes, vals |-> Strings, opt |-> TRUE] >>)
    \* update_contact (inputSchema, lines 154-162)
    [] op = "update_contact" ->
      ArgsOver(<< [k |-> K.id, vals |-> Uuids, opt |-> FALSE],
                  [k |-> K.first_name, vals |-> Strings, opt |-> TRUE],
                  [k |-> K.last_name, vals |-> Strings, opt |-> TRUE],
                  [k |-> K.email, vals |-> Strings, opt |-> TRUE],
                  [k |-> K.phone, vals |-> Strings, opt |-> TRUE],
                  [k |-> K.company, vals |-> Strings, opt |-> TRUE],
                  [k |-> K.notes, vals |-> Strings, opt |-> TRUE] >>)
    \* delete_contact (inputSchema, lines 174-176)
    [] op = "delete_contact" ->
      ArgsOver(<< [k |-> K.id, vals |-> Uuids, opt |-> FALSE] >>)
    \* search_contacts (inputSchema, lines 189-191)
    [] op = "search_contacts" ->
      ArgsOver(<< [k |-> K.q, vals |-> Strings, opt |-> FALSE] >>)
    \* list_companies (inputSchema, lines 208-213)
    [] op = "list_companies" ->
      ArgsOver(<< [k |-> K.limit, vals |-> PositiveInts, opt |-> TRUE],
                  [k |-> K.offset, vals |-> NonNegativeInts, opt |-> TRUE],
                  [k |-> K.sort, vals |-> Strings, opt |-> TRUE],
                  [k |-> K.order, vals |-> { Str(<< "a", "s", "c" >>) }, opt |-> TRUE] >>)
    \* get_company (inputSchema, lines 226-228)
    [] op = "get_company" ->
      ArgsOver(<< [k |-> K.id, vals |-> Uuids, opt |-> FALSE] >>)
    \* create_company (inputSchema, lines 240-247)
    [] op = "create_company" ->
      ArgsOver(<< [k |-> K.name, vals |-> Strings, opt |-> FALSE],
                  [k |-> K.website, vals |-> Strings, opt |-> TRUE],
                  [k |-> K.email, vals |-> Strings, opt |-> TRUE],
                  [k |-> K.phone, vals |-> Strings, opt |-> TRUE],
                  [k |-> K.address, vals |-> Strings, opt |-> TRUE],
                  [k |-> K.notes, vals |-> Strings, opt |-> TRUE] >>)
    \* update_company (inputSchema, lines 259-267)
    [] op = "update_company" ->
      ArgsOver(<< [k |-> K.id, vals |-> Uuids, opt |-> FALSE],
                  [k |-> K.name, vals |-> Strings, opt |-> TRUE],
                  [k |-> K.website, vals |-> Strings, opt |-> TRUE],
                  [k |-> K.email, vals |-> Strings, opt |-> TRUE],
                  [k |-> K.phone, vals |-> Strings, opt |-> TRUE],
                  [k |-> K.address, vals |-> Strings, opt |-> TRUE],
                  [k |-> K.notes, vals |-> Strings, opt |-> TRUE] >>)
    \* delete_company (inputSchema, lines 279-282)
    [] op = "delete_company" ->
      ArgsOver(<< [k |-> K.id, vals |-> Uuids, opt |-> FALSE],
                  [k |-> K.permanent, vals |-> Booleans, opt |-> TRUE] >>)
    \* search_companies (inputSchema, lines 296-298)
    [] op = "search_companies" ->
      ArgsOver(<< [k |-> K.q, vals |-> Strings, opt |-> FALSE] >>)
    \* list_entries (inputSchema, lines 315-325)
    [] op = "list_entries" ->
      ArgsOver(<< [k |-> K.type, vals |-> { Str(<< "c", "a", "l", "l" >>) }, opt |-> TRUE],
                  [k |-> K.contact_id, vals |-> Uuids, opt |-> TRUE],
                  [k |-> K.from, vals |-> Strings, opt |-> TRUE],
                  [k |-> K.to, vals |-> Strings, opt |-> TRUE],
                  [k |-> K.limit, vals |-> PositiveInts, opt |-> TRUE],
                  [k |-> K.offset, vals |-> NonNegativeInts, opt |-> TRUE] >>)
    \* create_entry (inputSchema, lines 340-350)
    [] op = "create_entry" ->
      ArgsOver(<< [k |-> K.type, vals |-> { Str(<< "c", "a", "l", "l" >>) }, opt |-> FALSE],
                  [k |-> K.date, vals |-> Strings, opt |-> FALSE],
                  [k |-> K.content, vals |-> Strings, opt |-> TRUE],
                  [k |-> K.contact_ids, vals |-> UuidArrays, opt |-> TRUE] >>)
    \* update_entry (inputSchema, lines 362-374)
    [] op = "update_entry" ->
      ArgsOver(<< [k |-> K.id, vals |-> Uuids, opt |-> FALSE],
                  [k |-> K.type, vals |-> { Str(<< "c", "a", "l", "l" >>) }, opt |-> TRUE],
                  [k |-> K.date, vals |-> Strings, opt |-> TRUE],
                  [k |-> K.content, vals |-> Strings, opt |-> TRUE],
                  [k |-> K.contact_ids, vals |-> UuidArrays, opt |-> TRUE] >>)
    \* delete_entry (inputSchema, lines 386-388)
    [] op = "delete_entry" ->
      ArgsOver(<< [k |-> K.id, vals |-> Uuids, opt |-> FALSE] >>)
    \* list_tasks (inputSchema, lines 405-414)
    [] op = "list_tasks" ->
      ArgsOver(<< [k |-> K.status, vals |-> { Str(<< "p", "e", "n", "d", "i", "n", "g" >>) }, opt |-> TRUE],
                  [k |-> K.date_type, vals |-> { Str(<< "s", "p", "e", "c", "i", "f", "i", "c" >>) }, opt |-> TRUE],
                  [k |-> K.date, vals |-> Strings, opt |-> TRUE],
                  [k |-> K.limit, vals |-> PositiveInts, opt |-> TRUE],
                  [k |-> K.offset, vals |-> NonNegativeInts, opt |-> TRUE] >>)
    \* create_task (inputSchema, lines 429-449)
    [] op = "create_task" ->
      ArgsOver(<< [k |-> K.title, vals |-> Strings, opt |-> FALSE],
                  [k |-> K.description, vals |-> Strings, opt |-> TRUE],
                  [k |-> K.date, vals |-> Strings, opt |-> TRUE],
                  [k |-> K.date_type, vals |-> { Str(<< "s", "p", "e", "c", "i", "f", "i", "c" >>) }, opt |-> TRUE],
                  [k |-> K.priority, vals |-> { Str(<< "l", "o", "w" >>) }, opt |-> TRUE],
                  [k |-> K.recurrence_type, vals |-> { Str(<< "d", "a", "i", "l", "y" >>) }, opt |-> TRUE],
                  [k |-> K.recurrence_interval, vals |-> PositiveInts, opt |-> TRUE],
                  [k |-> K.contact_id, vals |-> Uuids, opt |-> TRUE] >>)
    \* update_task (inputSchema, lines 461-471)
    [] op = "update_task" ->
      ArgsOver(<< [k |-> K.id, vals |-> Uuids, opt |-> FALSE],
                  [k |-> K.title, vals |-> Strings, opt |-> TRUE],
                  [k |-> K.description, vals |-> Strings, opt |-> TRUE],
                  [k |-> K.date, vals |-> Strings, opt |-> TRUE],
                  [k |-> K.date_type, vals |-> { Str(<< "s", "p", "e", "c", "i", "f", "i", "c" >>) }, opt |-> TRUE],
                  [k |-> K.priority, vals |-> { Str(<< "l", "o", "w" >>) }, opt |-> TRUE] >>)
    \* delete_task (inputSchema, lines 483-485)
    [] op = "delete_task" ->
      ArgsOver(<< [k |-> K.id, vals |-> Uuids, opt |-> FALSE] >>)
    \* complete_task (inputSchema, lines 498-500)
    [] op = "complete_task" ->
      ArgsOver(<< [k |-> K.id, vals |-> Uuids, opt |-> FALSE] >>)
    \* uncomplete_task (inputSchema, lines 512-514)
    [] op = "uncomplete_task" ->
      ArgsOver(<< [k |-> K.id, vals |-> Uuids, opt |-> FALSE] >>)
    \* snooze_task (inputSchema, lines 526-533)
    [] op = "snooze_task" ->
      ArgsOver(<< [k |-> K.id, vals |-> Uuids, opt |-> FALSE],
                  [k |-> K.date, vals |-> Strings, opt |-> FALSE],
                  [k |-> K.date_type, vals |-> { Str(<< "s", "p", "e", "c", "i", "f", "i", "c" >>) }, opt |-> TRUE] >>)
    \* list_notes (inputSchema, lines 550-555)
    [] op = "list_notes" ->
      ArgsOver(<< [k |-> K.pinned, vals |-> Booleans, opt |-> TRUE],
                  [k |-> K.archived, vals |-> Booleans, opt |-> TRUE],
                  [k |-> K.limit, vals |-> PositiveInts, opt |-> TRUE],
                  [k |-> K.offset, vals |-> NonNegativeInts, opt |-> TRUE] >>)
    \* create_note (inputSchema, lines 570-577)
    [] op = "create_note" ->
      ArgsOver(<< [k |-> K.content, vals |-> Strings, opt |-> FALSE],
                  [k |-> K.is_pinned, vals |-> Booleans, opt |-> TRUE],
                  [k |-> K.contact_ids, vals |-> UuidArrays, opt |-> TRUE] >>)
    \* update_note (inputSchema, lines 589-592)
    [] op = "update_note" ->
      ArgsOver(<< [k |-> K.id, vals |-> Uuids, opt |-> FALSE],
                  [k |-> K.content, vals |-> Strings, opt |-> TRUE] >>)
    \* delete_note (inputSchema, lines 604-607)
    [] op = "delete_note" ->
      ArgsOver(<< [k |-> K.id, vals |-> Uuids, opt |-> FALSE],
                  [k |-> K.permanent, vals |-> Booleans, opt |-> TRUE] >>)
    \* pin_note (inputSchema, lines 620-622)
    [] op = "pin_note" ->
      ArgsOver(<< [k |-> K.id, vals |-> Uuids, opt |-> FALSE] >>)
    \* archive_note (inputSchema, lines 634-636)
    [] op = "archive_note" ->
      ArgsOver(<< [k |-> K.id, vals |-> Uuids, opt |-> FALSE] >>)
    \* restore_note (inputSchema, lines 648-650)
    [] op = "restore_note" ->
      ArgsOver(<< [k |-> K.id, vals |-> Uuids, opt |-> FALSE] >>)
    \* list_days (inputSchema, lines 666-671)
    [] op = "list_days" ->
      ArgsOver(<< [k |-> K.from, vals |-> Strings, opt |-> TRUE],
                  [k |-> K.to, vals |-> Strings, opt |-> TRUE],
                  [k |-> K.limit, vals |-> PositiveInts, opt |-> TRUE],
                  [k |-> K.offset, vals |-> NonNegativeInts, opt |-> TRUE] >>)
    \* get_day (inputSchema, lines 683-685)
    [] op = "get_day" ->
      ArgsOver(<< [k |-> K.date, vals |-> Strings, opt |-> FALSE] >>)
    \* update_day (inputSchema, lines 698-701)
    [] op = "update_day" ->
      ArgsOver(<< [k |-> K.date, vals |-> Strings, opt |-> FALSE],
                  [k |-> K.note, vals |-> Strings, opt |-> FALSE] >>)
    \* list_tags (inputSchema, lines 717-720)
    [] op = "list_tags" ->
      ArgsOver(<< [k |-> K.limit, vals |-> PositiveInts, opt |-> TRUE],
                  [k |-> K.offset, vals |-> NonNegativeInts, opt |-> TRUE] >>)
    \* get_tag_items (inputSchema, lines 733-735)
    [] op = "get_tag_items" ->
      ArgsOver(<< [k |-> K.id, vals |-> Uuids, opt |-> FALSE] >>)
    \* link_tag (inputSchema, lines 747-753)
    [] op = "link_tag" ->
      ArgsOver(<< [k |-> K.id, vals |-> Uuids, opt |-> FALSE],
                  [k |-> K.entity_type, vals |-> { Str(<< "c", "o", "n", "t", "a", "c", "t" >>) }, opt |-> FALSE],
                  [k |-> K.entity_id, vals |-> Uuids, opt |-> FALSE] >>)
    \* unlink_tag (inputSchema, lines 765-771)
    [] op = "unlink_tag" ->
      ArgsOver(<< [k |-> K.id, vals |-> Uuids, opt |-> FALSE],
                  [k |-> K.entity_type, vals |-> { Str(<< "c", "o", "n", "t", "a", "c", "t" >>) }, opt |-> FALSE],
                  [k |-> K.entity_id, vals |-> Uuids, opt |-> FALSE] >>)
    \* get_contact_timeline (inputSchema, lines 788-798)
    [] op = "get_contact_timeline" ->
      ArgsOver(<< [k |-> K.id, vals |-> Uuids, opt |-> FALSE],
                  [k |-> K.type, vals |-> { Str(<< "a", "l", "l" >>) }, opt |-> TRUE],
                  [k |-> K.from, vals |-> Strings, opt |-> TRUE],
                  [k |-> K.to, vals |-> Strings, opt |-> TRUE],
                  [k |-> K.limit, vals |-> PositiveInts, opt |-> TRUE],
                  [k |-> K.offset, vals |-> NonNegativeInts, opt |-> TRUE] >>)
    \* get_tasks_today (inputSchema, lines 817-817)
    [] op = "get_tasks_today" ->
      ArgsOver(<<  >>)
    \* get_tasks_overdue (inputSchema, lines 830-830)
    [] op = "get_tasks_overdue" ->
      ArgsOver(<<  >>)
    \* get_changelog (inputSchema, lines 847-854)
    [] op = "get_changelog" ->
      ArgsOver(<< [k |-> K.since, vals |-> Strings, opt |-> FALSE],
                  [k |-> K.type, vals |-> { Str(<< "a", "l", "l" >>) }, opt |-> TRUE],
                  [k |-> K.limit, vals |-> PositiveInts, opt |-> TRUE] >>)
    \* search (inputSchema, lines 871-878)
    [] op = "search" ->
      ArgsOver(<< [k |-> K.q, vals |-> Strings, opt |-> FALSE],
                  [k |-> K.type, vals |-> { Str(<< "a", "l", "l" >>) }, opt |-> TRUE],
                  [k |-> K.limit, vals |-> PositiveInts, opt |-> TRUE] >>)
    \* get_agent_instructions (inputSchema, lines 895-895)
    [] op = "get_agent_instructions" ->
      ArgsOver(<<  >>)

\* ------------------------------------------------------------------------
\* Outcomes of the remote call
\* ------------------------------------------------------------------------
NoError == [name |-> << >>, message |-> << >>]

\* fetch(url, init) rejects with err
Rejected(err) == [kind |-> "reject", err |-> err, body |-> Undefined]
\* fetch resolves and res.json() rejects with err
BadJson(err) == [kind |-> "badjson", err |-> err, body |-> Undefined]
\* fetch resolves and res.json() resolves with the parsed body
Json(body) == [kind |-> "json", err |-> NoError, body |-> body]
NoOutcome == [kind |-> "none", err |-> NoError, body |-> Undefined]

TransportErrors ==
  { [name |-> << "T", "y", "p", "e", "E", "r", "r", "o", "r" >>, message |-> << "f", "e", "t", "c", "h", " ", "f", "a", "i", "l", "e", "d" >>],
    [name |-> << "A", "b", "o", "r", "t", "E", "r", "r", "o", "r" >>, message |-> << >>] }

ParseErrors == { [name |-> << "S", "y", "n", "t", "a", "x", "E", "r", "r", "o", "r" >>, message |-> << "U", "n", "e", "x", "p", "e", "c", "t", "e", "d", " ", "e", "n", "d", " ", "o", "f", " ", "J", "S", "O", "N", " ", "i", "n", "p", "u", "t" >>] }

HttpStatuses == { 200, 404 }

JsonScalars ==
  { Null, Bool(FALSE), Bool(TRUE), Num(0), Num(MaxNum), Str(<< >>), Str(<< "n", "o", "t", " ", "f", "o", "u", "n", "d" >>) }

\* values of the error field of a response body
ErrorValues ==
  JsonScalars \cup
  { Arr(<< >>),
    Obj(<< >>),
    Obj(<< << K.code, Str(<< "X" >>) >> >>),
    Obj(<< << K.code, Str(<< "X" >>) >>, << K.message, Str(<< "b", "a", "d", " ", "i", "d" >>) >> >>),
    Obj(<< << K.code, Str(<< "X" >>) >>, << K.message, Str(<< >>) >> >>),
    Obj(<< << K.message, Null >> >>),
    Obj(<< << K.message, Num(MaxNum) >> >>),
    Obj(<< << K.message, Obj(<< << K.code, Num(MaxNum) >> >>) >> >>) }

\* values of the data field of a response body
DataValues ==
  JsonScalars \cup
  { Arr(<< >>),
    Arr(<< Obj(<< << K.id, Str(Uuid1) >>, << K.first_name, Str(<< "A", "d", "a", " ", "\"", "A", "\"", " ", "\\", " ", "L" >>) >> >>), Num(MaxNum) >>),
    Obj(<< >>),
    Obj(<< << K.id, Str(Uuid1) >>, << K.contact_ids, Arr(<< Str(Uuid1) >>) >>, << K.note, Str(<< "a", LF, "b" >>) >> >>) }

MetaValues ==
  { Obj(<< << K.total, Num(MaxNum) >>, << K.limit, Num(MaxNum) >>, << K.offset, Num(0) >> >>) }

\* the JSON values res.json() can resolve with, within the bounds
JsonBodies ==
  JsonScalars
  \cup { Arr(<< >>), Arr(<< Obj(<< << K.error, Str(<< "n", "o", "t", " ", "f", "o", "u", "n", "d" >>) >> >>) >>) }
  \cup ObjectsOver(<< [k |-> K.id, vals |-> Uuids, opt |-> TRUE],
                   [k |-> K.error, vals |-> ErrorValues, opt |-> TRUE],
                   [k |-> K.data, vals |-> DataValues, opt |-> TRUE],
                   [k |-> K.meta, vals |-> MetaValues, opt |-> TRUE] >>)

\* every outcome of the remote call, within the bounds
Outcomes ==
  { Rejected(e) : e \in TransportErrors }
  \cup { BadJson(e) : e \in ParseErrors }
  \cup { Json(b) : b \in JsonBodies }

\* the bodies answered in the specifications that run the handlers
HandlerBodies ==
  { Null,
    Obj(<< << K.data, Arr(<< >>) >>, << K.meta, Obj(<< << K.total, Num(0) >> >>) >> >>),
    Obj(<< << K.error, Str(<< "n", "o", "t", " ", "f", "o", "u", "n", "d" >>) >> >>),
    Obj(<< << K.error, Obj(<< << K.code, Str(<< "X" >>) >>, << K.message, Str(<< "b", "a", "d", " ", "i", "d" >>) >> >>) >> >>) }

\* ------------------------------------------------------------------------
\* The process: startup, invocations of the handlers, calls of the helpers
\* ------------------------------------------------------------------------
Slots == 1..MaxInv

NoCall == [url |-> << >>, method |-> "", headers |-> << >>, body |-> Undefined]
NoResult == [threw |-> FALSE, error |-> << >>, content |-> << >>]

Idle ==
  [ pc |-> "idle", op |-> "", args |-> Obj(<< >>), call |-> NoCall, ncalls |-> 0,
    status |-> 0, outcome |-> NoOutcome, api |-> Undefined, result |-> NoResult ]

\* a handler called with args: it runs to the await of fetch(url, init) of
\* line 50, which issues the one remote call
Started(op, args) ==
  [ pc |-> "fetch", op |-> op, args |-> args, call |-> Handler(op, args), ncalls |-> 1,
    status |-> 0, outcome |-> NoOutcome, api |-> Undefined, result |-> NoResult ]

\* mutant of Settled: a rejected fetch is issued a second time
SettledRetry(r, outcome) ==
  IF outcome.kind = "reject" /\ r.ncalls < 2
  THEN [ r EXCEPT !.pc = "fetch", !.ncalls = r.ncalls + 1 ]
  ELSE [ r EXCEPT !.pc = "done", !.outcome = outcome,
                  !.api = fetchApiReturn(outcome),
                  !.result = toContent(fetchApiReturn(outcome)) ]

\* the remote call has settled with outcome: fetchApi returns api (lines
\* 51-55) and the handler passes it to toContent and returns or throws
Settled(r, outcome) ==
  [ r EXCEPT !.pc = "done", !.outcome = outcome,
             !.api = fetchApiReturn(outcome),
             !.result = toContent(fetchApiReturn(outcome)) ]

KeyValues == { << >>, << "k", "s", "k", "_", "1" >> }

\* qs has not been called
NoQs == [called |-> FALSE, str |-> << >>]
\* toContent(await fetchApi(...)) has not been evaluated
NoRender == [done |-> FALSE, api |-> Undefined, result |-> NoResult]
\* fetchApi has not been called
NoFetch == [called |-> FALSE, call |-> NoCall]
NoFetchArgs == [path |-> << >>, method |-> DefaultMethod, body |-> Undefined]

InitSys ==
  /\ API_KEY \in KeyValues
  /\ phase = "load"
  /\ exitCode = 0 - 1
  /\ registered = { }
  /\ inv = [i \in Slots |-> Idle]

\* the state of a process that has started with a key and serves
InitServing ==
  /\ API_KEY \in KeyValues \ { << >> }
  /\ phase = "serving"
  /\ exitCode = 0 - 1
  /\ registered = ToolNames
  /\ inv = [i \in Slots |-> Idle]

Init ==
  /\ InitSys
  /\ qsIn = Obj(<< >>)
  /\ qsOut = NoQs
  /\ rIn = NoOutcome
  /\ rOut = NoRender
  /\ fIn = NoFetchArgs
  /\ fOut = NoFetch

\* mutant of CheckKey: the test of line 15 left out
CheckKeyNever ==
  /\ phase = "load"
  /\ phase' = "configured"
  /\ UNCHANGED << API_KEY, exitCode, registered, inv, pureVars >>

\* lines 15-21: without a key the process exits with status 1
CheckKey ==
  /\ phase = "load"
  /\ IF ~Truthy(Str(API_KEY))
     THEN phase' = "exited" /\ exitCode' = 1
     ELSE phase' = "configured" /\ UNCHANGED exitCode
  /\ UNCHANGED << API_KEY, registered, inv, pureVars >>

\* the tool names of the tables under "Available tools" (README.md 69-144)
ReadmeTools ==
  { "list_contacts", "get_contact", "create_contact", "update_contact",
    "delete_contact", "search_contacts", "get_contact_timeline", "list_companies",
    "get_company", "create_company", "update_company", "delete_company",
    "search_companies", "list_entries", "create_entry", "update_entry",
    "delete_entry", "list_tasks", "create_task", "update_task",
    "delete_task", "complete_task", "uncomplete_task", "snooze_task",
    "get_tasks_today", "get_tasks_overdue", "list_notes", "create_note",
    "update_note", "delete_note", "pin_note", "archive_note",
    "restore_note", "list_days", "get_day", "update_day",
    "list_tags", "get_tag_items", "link_tag", "unlink_tag",
    "search", "get_changelog", "get_agent_instructions" }

\* the number in the heading "Available tools (42)" (README.md 69)
ReadmeToolCount == 42

\* mutant of RegisterTools: the last registerTool call left out
RegisterToolsButLast ==
  /\ phase = "configured"
  /\ phase' = "registered"
  /\ registered' = ToolNames \ { "get_agent_instructions" }
  /\ UNCHANGED << API_KEY, exitCode, inv, pureVars >>

\* lines 87-901: the server.registerTool calls of the module body
RegisterTools ==
  /\ phase = "configured"
  /\ phase' = "registered"
  /\ registered' = ToolNames
  /\ UNCHANGED << API_KEY, exitCode, inv, pureVars >>

\* lines 907-911: main connects the server to the stdio transport
Connect ==
  /\ phase = "registered"
  /\ phase' = "serving"
  /\ UNCHANGED << API_KEY, exitCode, registered, inv, pureVars >>

\* mutant of Invoke: a call already made for the same tool and arguments by
\* another invocation is reused instead of issuing one
InvokeMemo(i, op, args) ==
  /\ phase = "serving"
  /\ op \in registered
  /\ inv[i].pc = "idle"
  /\ inv' = [inv EXCEPT ![i] =
               IF \E j \in Slots : inv[j].pc # "idle" /\ inv[j].op = op /\ inv[j].args = args
               THEN [ Started(op, args) EXCEPT !.ncalls = 0, !.call = NoCall ]
               ELSE Started(op, args)]
  /\ UNCHANGED << sysVars, pureVars >>

\* the server calls the handler of a registered tool with parsed arguments
Invoke(i, op, args) ==
  /\ phase = "serving"
  /\ op \in registered
  /\ inv[i].pc = "idle"
  /\ inv' = [inv EXCEPT ![i] = Started(op, args)]
  /\ UNCHANGED << sysVars, pureVars >>

\* line 50 rejects: the catch block of lines 53-55
FetchRejects(i, err) ==
  /\ inv[i].pc = "fetch"
  /\ inv' = [inv EXCEPT ![i] = Settled(inv[i], Rejected(err))]
  /\ UNCHANGED << sysVars, pureVars >>

\* line 50 resolves with a response of some status; line 51 awaits res.json()
FetchResolves(i, status) ==
  /\ inv[i].pc = "fetch"
  /\ inv' = [inv EXCEPT ![i].pc = "json", ![i].status = status]
  /\ UNCHANGED << sysVars, pureVars >>

\* line 51 rejects: the body is not JSON
JsonRejects(i, err) ==
  /\ inv[i].pc = "json"
  /\ inv' = [inv EXCEPT ![i] = Settled(inv[i], BadJson(err))]
  /\ UNCHANGED << sysVars, pureVars >>

\* line 51 resolves with the parsed body
JsonResolves(i, body) ==
  /\ inv[i].pc = "json"
  /\ inv' = [inv EXCEPT ![i] = Settled(inv[i], Json(body))]
  /\ UNCHANGED << sysVars, pureVars >>

\* the server has taken the handler's result; the invocation is over
Finish(i) ==
  /\ inv[i].pc = "done"
  /\ inv' = [inv EXCEPT ![i] = Idle]
  /\ UNCHANGED << sysVars, pureVars >>

\* ------------------------------------------------------------------------
\* Specifications
\* ------------------------------------------------------------------------
\* the tools and arguments invoked while several invocations are in flight
ConcurrentRequests ==
  { << "list_contacts", Obj(<< << K.limit, Num(MaxNum) >>, << K.include_last_interaction, Bool(FALSE) >> >>) >>,
    << "get_contact", Obj(<< << K.id, Str(Uuid1) >> >>) >>,
    << "create_contact", Obj(<< << K.first_name, Str(<< "A", "d", "a" >>) >>, << K.last_name, Str(<< "L", "o", "v", "e", "l", "a", "c", "e" >>) >> >>) >>,
    << "delete_company", Obj(<< << K.id, Str(Uuid1) >>, << K.permanent, Bool(TRUE) >> >>) >> }

\* several invocations in flight at once
Next ==
  \/ CheckKey
  \/ RegisterTools
  \/ Connect
  \/ \E i \in Slots, rq \in ConcurrentRequests : Invoke(i, rq[1], rq[2])
  \/ \E i \in Slots, e \in TransportErrors : FetchRejects(i, e)
  \/ \E i \in Slots : FetchResolves(i, 200)
  \/ \E i \in Slots, e \in ParseErrors : JsonRejects(i, e)
  \/ \E i \in Slots, b \in HandlerBodies : JsonResolves(i, b)
  \/ \E i \in Slots : Finish(i)

Spec == Init /\ [][Next]_vars

\* every tool with every argument object of its bounded set, one invocation
\* at a time
NextOps ==
  \/ CheckKey
  \/ RegisterTools
  \/ Connect
  \/ \E op \in ToolNames : \E a \in ValidArgs(op) : Invoke(1, op, a)
  \/ \E e \in TransportErrors : FetchRejects(1, e)
  \/ \E st \in HttpStatuses : FetchResolves(1, st)
  \/ \E e \in ParseErrors : JsonRejects(1, e)
  \/ \E b \in HandlerBodies : JsonResolves(1, b)
  \/ Finish(1)

SpecOps == Init /\ [][NextOps]_vars

\* keys of the parameter mappings handed to qs on its own
QsKeys == { K.limit, K.q, << "a", " ", "b" >>, << "x", "&", "y", "=", "z" >> }

\* values of the parameter mappings handed to qs on its own
QsValues ==
  { Undefined, Null, Str(<< >>), Bool(FALSE), Bool(TRUE), Num(0), Num(MaxNum), Num(0 - 1),
    Str(<< "a", "s", "c" >>), Str(<< "a", "/", "b", "?", "c", "=", "d", "&", "e", " ", "f" >>), Str(<< "1", "0", "0", "%" >>) }

RECURSIVE EntriesUpTo(_)
\* the entry lists of at most n entries with distinct keys
EntriesUpTo(n) ==
  IF n = 0 THEN { << >> }
  ELSE LET shorter == EntriesUpTo(n - 1)
       IN  shorter \cup
           { es \o << << k, v >> >> :
               es \in { e \in shorter : Len(e) = n - 1 }, k \in QsKeys, v \in QsValues }

DistinctKeys(es) == \A i, j \in 1..Len(es) : es[i][1] = es[j][1] => i = j

\* the object literal that the list_contacts handler passes to qs (line 111)
ListContactsParams(args) ==
  Obj(<< << K.limit, Get(args, K.limit) >>, << K.offset, Get(args, K.offset) >>,
         << K.sort, Get(args, K.sort) >>, << K.order, Get(args, K.order) >>,
         << K.include_last_interaction, Get(args, K.include_last_interaction) >> >>)

\* the arguments of scenario B of the specification
ScenarioBArgs ==
  Obj(<< << K.limit, Num(5) >>, << K.include_last_interaction, Bool(FALSE) >> >>)

QsInputs ==
  { Obj(es) : es \in { e \in EntriesUpTo(MaxParams) : DistinctKeys(e) } }
  \cup { ListContactsParams(a) : a \in ValidArgs("list_contacts") \cup { ScenarioBArgs } }

\* a call of qs
QsCall ==
  /\ ~qsOut.called
  /\ qsOut' = [called |-> TRUE, str |-> qs(qsIn)]
  /\ UNCHANGED << sysVars, inv, qsIn, rIn, rOut, fIn, fOut >>

InitQs ==
  /\ InitServing
  /\ qsIn \in QsInputs
  /\ qsOut = NoQs
  /\ rIn = NoOutcome
  /\ rOut = NoRender
  /\ fIn = NoFetchArgs
  /\ fOut = NoFetch

SpecQs == InitQs /\ [][QsCall]_vars

\* toContent(await fetchApi(...)) for an outcome of the remote call
RenderCall ==
  /\ ~rOut.done
  /\ rOut' = [done |-> TRUE, api |-> fetchApiReturn(rIn),
              result |-> toContent(fetchApiReturn(rIn))]
  /\ UNCHANGED << sysVars, inv, qsIn, qsOut, rIn, fIn, fOut >>

InitRender ==
  /\ InitServing
  /\ qsIn = Obj(<< >>)
  /\ qsOut = NoQs
  /\ rIn \in Outcomes
  /\ rOut = NoRender
  /\ fIn = NoFetchArgs
  /\ fOut = NoFetch

SpecRender == InitRender /\ [][RenderCall]_vars

\* the methods of the remote calls
Methods == { "GET", "POST", "PATCH", "DELETE" }

FetchPaths ==
  { << "/", "c", "o", "n", "t", "a", "c", "t", "s" >>, << "/", "c", "o", "n", "t", "a", "c", "t", "s", "/" >> \o Uuid1, << "/", "c", "o", "n", "t", "a", "c", "t", "s", "?", "l", "i", "m", "i", "t", "=", "5" >>, << "/", "t", "a", "s", "k", "s", "/" >> \o Uuid1 \o << "/", "s", "n", "o", "o", "z", "e" >>,
    << "/", "d", "a", "y", "s" >>, << "/", "a", "g", "e", "n", "t", "/", "i", "n", "s", "t", "r", "u", "c", "t", "i", "o", "n", "s" >> }

\* values of fetchApi's parameter body
FetchBodies ==
  { Undefined, Obj(<< >>),
    Obj(<< << K.first_name, Str(<< "A", "d", "a" >>) >>, << K.last_name, Str(<< "L", "o", "v", "e", "l", "a", "c", "e" >>) >> >>),
    Obj(<< << K.date, Str(<< "2", "0", "2", "6", "-", "0", "2", "-", "1", "1" >>) >>, << K.date_type, Undefined >> >>),
    Obj(<< << K.contact_ids, Arr(<< Str(Uuid1) >>) >>, << K.is_pinned, Bool(FALSE) >> >>) }

\* a call fetchApi(path, method, body) up to fetch(url, init)
FetchCall ==
  /\ ~fOut.called
  /\ fOut' = [called |-> TRUE, call |-> fetchApi(fIn.path, fIn.method, fIn.body)]
  /\ UNCHANGED << sysVars, inv, qsIn, qsOut, rIn, rOut, fIn >>

InitFetch ==
  /\ InitServing
  /\ qsIn = Obj(<< >>)
  /\ qsOut = NoQs
  /\ rIn = NoOutcome
  /\ rOut = NoRender
  /\ fIn \in [path : FetchPaths, method : Methods, body : FetchBodies]
  /\ fOut = NoFetch

SpecFetch == InitFetch /\ [][FetchCall]_vars

\* ------------------------------------------------------------------------
\* Reading a query string back (used to state the properties of qs)
\* ------------------------------------------------------------------------
IndexOf(s, c) ==
  IF \E i \in 1..Len(s) : s[i] = c
  THEN CHOOSE i \in 1..Len(s) : s[i] = c /\ \A j \in 1..(i - 1) : s[j] # c
  ELSE 0

CountOf(s, c) == Cardinality({ i \in 1..Len(s) : s[i] = c })

RECURSIVE Split(_, _)
\* the pieces of s between the occurrences of the character c
Split(s, c) ==
  IF IndexOf(s, c) = 0 THEN << s >>
  ELSE << SubSeq(s, 1, IndexOf(s, c) - 1) >> \o Split(SubSeq(s, IndexOf(s, c) + 1, Len(s)), c)

IsHex(c) == \E i \in 1..16 : HexDigits[i] = c

HexVal(c) == IF IsHex(c) THEN (CHOOSE i \in 1..16 : HexDigits[i] = c) - 1 ELSE 0

RECURSIVE PercentDecode(_)
\* the text whose percent-encoding is s
PercentDecode(s) ==
  IF s = << >> THEN << >>
  ELSE IF Head(s) = "%" /\ Len(s) >= 3
            /\ 16 * HexVal(s[2]) + HexVal(s[3]) \in (32..95) \cup (97..126)
       THEN << CharOf(16 * HexVal(s[2]) + HexVal(s[3])) >> \o PercentDecode(SubSeq(s, 4, Len(s)))
       ELSE << Head(s) >> \o PercentDecode(Tail(s))

\* the raw key=value pieces of a query string
RawPairs(str) ==
  IF str = << >> THEN << >>
  ELSE LET segs == Split(IF Head(str) = "?" THEN Tail(str) ELSE str, "&")
       IN  [ i \in 1..Len(segs) |->
               IF IndexOf(segs[i], "=") = 0 THEN << segs[i], << >> >>
               ELSE << SubSeq(segs[i], 1, IndexOf(segs[i], "=") - 1),
                       SubSeq(segs[i], IndexOf(segs[i], "=") + 1, Len(segs[i])) >> ]

\* the decoded <<key, value>> pairs of a query string, in order
ParseQuery(str) ==
  [ i \in 1..Len(RawPairs(str)) |->
      << PercentDecode(RawPairs(str)[i][1]), PercentDecode(RawPairs(str)[i][2]) >> ]

\* s is made of unreserved characters and %XX escapes only
PercentEncoded(s) ==
  \A i \in 1..Len(s) :
    \/ s[i] \in UriUnreserved
    \/ s[i] = "%" /\ i + 2 <= Len(s) /\ IsHex(s[i + 1]) /\ IsHex(s[i + 2])

\* a value that qs must leave out: undefined, null or the empty string
QsAbsent(x) == x.t = "undefined" \/ x.t = "null" \/ (x.t = "string" /\ Len(x.v) = 0)

RECURSIVE QsExpected(_)
\* the <<key, text>> pairs of the entries that qs must keep, in order
QsExpected(entries) ==
  IF entries = << >> THEN << >>
  ELSE (IF QsAbsent(Head(entries)[2]) THEN << >>
        ELSE << << Head(entries)[1],
                   CASE Head(entries)[2] = Bool(FALSE) -> << "f", "a", "l", "s", "e" >>
                     [] Head(entries)[2] = Bool(TRUE) -> << "t", "r", "u", "e" >>
                     [] Head(entries)[2] = Num(0) -> << "0" >>
                     [] Head(entries)[2].t = "number" -> NumberToString(Head(entries)[2].v)
                     [] OTHER -> Head(entries)[2].v >> >>)
       \o QsExpected(Tail(entries))

\* ------------------------------------------------------------------------
\* Properties
\* ------------------------------------------------------------------------

\* C1: a parameter appears in the string built by qs if and only if its
\* value is none of undefined, null and the empty string (false and 0 are
\* kept), and every key and value in the string is percent-encoded.
C1_QsKeepsAllButAbsent ==
  qsOut.called =>
    LET pairs == ParseQuery(qsOut.str)
        raw == RawPairs(qsOut.str)
    IN  /\ \A i \in 1..Len(qsIn.v) :
             /\ (\E j \in 1..Len(pairs) : pairs[j][1] = qsIn.v[i][1]) <=> ~QsAbsent(qsIn.v[i][2])
             /\ qsIn.v[i][2] = Bool(FALSE)
                  => \E j \in 1..Len(pairs) : pairs[j] = << qsIn.v[i][1], << "f", "a", "l", "s", "e" >> >>
             /\ qsIn.v[i][2] = Num(0)
                  => \E j \in 1..Len(pairs) : pairs[j] = << qsIn.v[i][1], << "0" >> >>
        /\ \A j \in 1..Len(raw) : PercentEncoded(raw[j][1]) /\ PercentEncoded(raw[j][2])
        /\ \A j \in 1..Len(pairs) :
             \E i \in 1..Len(qsIn.v) :
               ~QsAbsent(qsIn.v[i][2]) /\ << pairs[j] >> = QsExpected(<< qsIn.v[i] >>)

\* C1 witness: qs has been called with a 0 or false value next to a null,
\* undefined or empty one, and with a key that needs encoding
C1_Witness ==
  /\ qsOut.called
  /\ Len(qsIn.v) = 2
  /\ qsIn.v[1][2] \in { Num(0), Bool(FALSE) }
  /\ QsAbsent(qsIn.v[2][2])
  /\ qsIn.v[1][1] = << "a", " ", "b" >>
  /\ qsOut.str \in { << "?", "a", "%", "2", "0", "b", "=", "0" >>, << "?", "a", "%", "2", "0", "b", "=", "f", "a", "l", "s", "e" >> }

\* C2: the string built by qs is empty when no parameter is kept, and else
\* is one "?" followed by the kept parameters as key=value, in insertion
\* order, joined by "&"; list_contacts with {limit:5,
\* include_last_interaction:false} gives ?limit=5&include_last_interaction=false.
C2_QsFormat ==
  qsOut.called =>
    LET expected == QsExpected(qsIn.v)
    IN  /\ expected = << >> => qsOut.str = << >>
        /\ expected # << >> =>
             /\ Head(qsOut.str) = "?"
             /\ CountOf(qsOut.str, "?") = 1
             /\ CountOf(qsOut.str, "&") = Len(expected) - 1
             /\ CountOf(qsOut.str, "=") = Len(expected)
             /\ ParseQuery(qsOut.str) = expected
        /\ qsIn = ListContactsParams(ScenarioBArgs)
             => qsOut.str = << "?", "l", "i", "m", "i", "t", "=", "5", "&", "i", "n", "c", "l", "u", "d", "e", "_", "l", "a", "s", "t", "_", "i", "n", "t", "e", "r", "a", "c", "t", "i", "o", "n", "=", "f", "a", "l", "s", "e" >>

\* C2 witness: the call of scenario B, three parameters left out and two kept
C2_Witness ==
  /\ qsOut.called
  /\ qsIn = ListContactsParams(ScenarioBArgs)
  /\ qsOut.str = << "?", "l", "i", "m", "i", "t", "=", "5", "&", "i", "n", "c", "l", "u", "d", "e", "_", "l", "a", "s", "t", "_", "i", "n", "t", "e", "r", "a", "c", "t", "i", "o", "n", "=", "f", "a", "l", "s", "e" >>

\* C2 witness of the empty result is part of the formula's first conjunct;
\* a state where every parameter is left out
C2_EmptyReached ==
  /\ qsOut.called
  /\ Len(qsIn.v) = 2
  /\ \A i \in 1..2 : QsAbsent(qsIn.v[i][2])
  /\ qsOut.str = << >>

\* C3: a call whose method is GET is issued without a body even when a
\* body value is given to fetchApi; a body is attached only when the method
\* is not GET and a body value was given.
C3_NoBodyOnGet ==
  fOut.called =>
    /\ fIn.method = "GET" => fOut.call.body.t = "undefined"
    /\ fOut.call.body.t # "undefined" => fIn.method # "GET" /\ fIn.body.t # "undefined"
    /\ fOut.call.method = fIn.method

\* C3 witness: fetchApi was called with GET and a body value, no body issued
C3_Witness ==
  /\ fOut.called
  /\ fIn.method = "GET"
  /\ fIn.body.t = "object" /\ Len(fIn.body.v) = 2
  /\ fOut.call.body.t = "undefined"

\* the handler returned exactly one content block, of type "text"
OneTextBlock(res) == ~res.threw /\ Len(res.content) = 1 /\ res.content[1].type = "text"

\* ... whose text starts with "Error: "
ErrorBlock(res) == OneTextBlock(res) /\ StartsWith(res.content[1].text, << "E", "r", "r", "o", "r", ":", " " >>)

\* ... whose text is the 2-space indented JSON of x
JsonBlock(res, x) == OneTextBlock(res) /\ res.content[1].text = JSONstringify(x, 2)

\* a value that is none of undefined, null, false, 0 and ""
IsSet(x) ==
  /\ x.t \notin { "undefined", "null" }
  /\ x.t = "boolean" => x.v = TRUE
  /\ x.t = "number" => x.v # 0
  /\ x.t = "string" => Len(x.v) > 0

\* C4: when fetch rejects, fetchApi returns { error: { code: "NETWORK_ERROR",
\* message: String(err) } } and the handler returns one text block whose
\* text starts with "Error: ".
C4_TransportFailure ==
  (rOut.done /\ rIn.kind = "reject") =>
    /\ rOut.api.t = "object"
    /\ Len(rOut.api.v) = 1
    /\ rOut.api.v[1][1] = K.error
    /\ rOut.api.v[1][2].t = "object"
    /\ Get(rOut.api.v[1][2], K.code) = Str(<< "N", "E", "T", "W", "O", "R", "K", "_", "E", "R", "R", "O", "R" >>)
    /\ Get(rOut.api.v[1][2], K.message).t = "string"
    /\ (rIn.err = [name |-> << "T", "y", "p", "e", "E", "r", "r", "o", "r" >>, message |-> << "f", "e", "t", "c", "h", " ", "f", "a", "i", "l", "e", "d" >>]
          => Get(rOut.api.v[1][2], K.message).v = << "T", "y", "p", "e", "E", "r", "r", "o", "r", ":", " ", "f", "e", "t", "c", "h", " ", "f", "a", "i", "l", "e", "d" >>)
    /\ (rIn.err = [name |-> << "A", "b", "o", "r", "t", "E", "r", "r", "o", "r" >>, message |-> << >>]
          => Get(rOut.api.v[1][2], K.message).v = << "A", "b", "o", "r", "t", "E", "r", "r", "o", "r" >>)
    /\ ErrorBlock(rOut.result)

\* C4 witness: a rejected fetch rendered as "Error: TypeError: fetch failed"
C4_Witness ==
  /\ rOut.done
  /\ rIn.kind = "reject"
  /\ rOut.result.content = << TextBlock(<< "E", "r", "r", "o", "r", ":", " ", "T", "y", "p", "e", "E", "r", "r", "o", "r", ":", " ", "f", "e", "t", "c", "h", " ", "f", "a", "i", "l", "e", "d" >>) >>

\* C5 as stated: an object body is a Failure, rendered as an "Error: " block,
\* exactly when it has an error field whatever its value, and else a Success
\* rendered as a block of indented JSON.
C5_Original ==
  (rOut.done /\ rIn.kind = "json" /\ rIn.body.t = "object") =>
    IF HasKey(rIn.body, K.error)
    THEN ErrorBlock(rOut.result)
    ELSE ~ErrorBlock(rOut.result)
         /\ (JsonBlock(rOut.result, rIn.body) \/ JsonBlock(rOut.result, Get(rIn.body, K.data)))

\* C5 as amended: a parsed body is a Failure, rendered as one "Error: " text
\* block, exactly when its error field holds a value that is none of null,
\* false, 0 and ""; every other body that toContent renders (all but null,
\* on which it throws) is a Success, one text block of indented JSON.
C5_FailureIffErrorSet ==
  (rOut.done /\ rIn.kind = "json") =>
    /\ ErrorBlock(rOut.result) <=> (HasKey(rIn.body, K.error) /\ IsSet(Get(rIn.body, K.error)))
    /\ rOut.result.threw <=> rIn.body.t = "null"
    /\ (~ErrorBlock(rOut.result) /\ ~rOut.result.threw) =>
         \/ JsonBlock(rOut.result, rIn.body)
         \/ HasKey(rIn.body, K.data) /\ JsonBlock(rOut.result, Get(rIn.body, K.data))

\* C5 witness: a body whose error field is null, false, 0 or "" was rendered
\* as a Success
C5_Witness ==
  /\ rOut.done
  /\ rIn.kind = "json"
  /\ HasKey(rIn.body, K.error)
  /\ ~IsSet(Get(rIn.body, K.error))
  /\ ~HasKey(rIn.body, K.data)
  /\ JsonBlock(rOut.result, rIn.body)

\* the text after "Error: " by the three cases of the claim, where Given
\* tells whether an error object counts as having a message
FailureText(e, given) ==
  IF e.t = "string" THEN e.v
  ELSE IF given THEN StringOf(Get(e, K.message))
  ELSE JSONstringify(e, 0)

\* C6 as stated: the text of a Failure is "Error: " followed by the error's
\* message when the error is an object with a message field, by the error
\* itself when it is a string, otherwise by the JSON encoding of the error.
C6_Original ==
  (rOut.done /\ ErrorBlock(rOut.result)) =>
    rOut.result.content[1].text =
      << "E", "r", "r", "o", "r", ":", " " >> \o FailureText(Get(rOut.api, K.error), HasKey(Get(rOut.api, K.error), K.message))

\* C6 as amended: the text of a Failure is "Error: " followed by the error's
\* message when the error is an object whose message is none of null, false,
\* 0 and ""; by the error itself when it is a string; otherwise by the JSON
\* encoding of the error.  {"error":"not found"} gives "Error: not found",
\* {"error":{"code":"X","message":"bad id"}} gives "Error: bad id".
C6_FailureText ==
  (rOut.done /\ ErrorBlock(rOut.result)) =>
    /\ rOut.result.content[1].text =
         << "E", "r", "r", "o", "r", ":", " " >> \o FailureText(Get(rOut.api, K.error),
                                    HasKey(Get(rOut.api, K.error), K.message)
                                      /\ IsSet(Get(Get(rOut.api, K.error), K.message)))
    /\ rOut.api = Obj(<< << K.error, Str(<< "n", "o", "t", " ", "f", "o", "u", "n", "d" >>) >> >>)
         => rOut.result.content[1].text = << "E", "r", "r", "o", "r", ":", " ", "n", "o", "t", " ", "f", "o", "u", "n", "d" >>
    /\ rOut.api = Obj(<< << K.error, Obj(<< << K.code, Str(<< "X" >>) >>, << K.message, Str(<< "b", "a", "d", " ", "i", "d" >>) >> >>) >> >>)
         => rOut.result.content[1].text = << "E", "r", "r", "o", "r", ":", " ", "b", "a", "d", " ", "i", "d" >>

\* C6 witness: an error object with an empty message rendered by its JSON
C6_Witness ==
  /\ rOut.done
  /\ rOut.api = Obj(<< << K.error, Obj(<< << K.code, Str(<< "X" >>) >>, << K.message, Str(<< >>) >> >>) >> >>)
  /\ rOut.result.content = << TextBlock(<< "E", "r", "r", "o", "r", ":", " ", "{", "\"", "c", "o", "d", "e", "\"", ":", "\"", "X", "\"", ",", "\"", "m", "e", "s", "s", "a", "g", "e", "\"", ":", "\"", "\"", "}" >>) >>

\* toContent rendered a Success
SuccessRendered == rOut.done /\ ~rOut.result.threw /\ ~ErrorBlock(rOut.result)

\* C7 as stated: the text of a Success is the indented JSON of the data field
\* whenever the payload has a data field, and of the whole payload whenever
\* it has none.
C7_Original ==
  SuccessRendered =>
    IF HasKey(rOut.api, K.data)
    THEN JsonBlock(rOut.result, Get(rOut.api, K.data))
    ELSE JsonBlock(rOut.result, rOut.api)

\* C7 as amended: the text of a Success is the 2-space indented JSON of the
\* data field whenever the payload has a data field that is not null, and of
\* the whole payload whenever it has no data field or a null one.
C7_SuccessText ==
  SuccessRendered =>
    /\ IF HasKey(rOut.api, K.data) /\ Get(rOut.api, K.data).t # "null"
       THEN JsonBlock(rOut.result, Get(rOut.api, K.data))
       ELSE JsonBlock(rOut.result, rOut.api)
    /\ rOut.api = Obj(<< << K.data, Obj(<< >>) >> >>)
         => rOut.result.content[1].text = << "{", "}" >>
    /\ rOut.api = Obj(<< << K.id, Str(Uuid1) >> >>)
         => rOut.result.content[1].text
              = << "{", LF, " ", " ", "\"", "i", "d", "\"", ":", " ", "\"" >> \o Uuid1 \o << "\"", LF, "}" >>
    /\ rOut.api = Obj(<< << K.data, Num(0) >> >>)
         => rOut.result.content[1].text = << "0" >>

\* C7 witness: a payload whose data field is null rendered whole
C7_Witness ==
  /\ rOut.done
  /\ rOut.api = Obj(<< << K.data, Null >> >>)
  /\ rOut.result.content = << TextBlock(<< "{", LF, " ", " ", "\"", "d", "a", "t", "a", "\"", ":", " ", "n", "u", "l", "l", LF, "}" >>) >>

\* C8 as stated: for every outcome of the remote call the handler does not
\* throw and returns exactly one content block of type "text".
C8_NeverThrows == rOut.done => OneTextBlock(rOut.result)

\* C9: an invocation that has started has issued exactly one remote call,
\* the one its handler builds from its arguments, whether the call is still
\* pending, has failed or has succeeded; an idle slot has issued none.
C9_OneRemoteCall ==
  \A i \in Slots :
    IF inv[i].pc = "idle"
    THEN inv[i].ncalls = 0
    ELSE /\ inv[i].ncalls = 1
         /\ inv[i].call = Handler(inv[i].op, inv[i].args)
         /\ StartsWith(inv[i].call.url, API_BASE)

\* C9 witness: an invocation whose remote call was rejected has returned its
\* Failure after that one call
C9_Witness ==
  /\ inv[1].pc = "done"
  /\ inv[1].outcome.kind = "reject"
  /\ inv[1].ncalls = 1
  /\ ErrorBlock(inv[1].result)

\* C11: without a key the process never gets past the test of line 15: it is
\* loading or has exited with status 1, no tool is registered, the transport
\* is not connected and no invocation has started; and only a process
\* without a key exits that way.
C11_NoKeyNoService ==
  /\ API_KEY = << >> =>
       /\ phase \in { "load", "exited" }
       /\ registered = { }
       /\ \A i \in Slots : inv[i] = Idle
  /\ phase = "exited" => API_KEY = << >> /\ exitCode = 1
  /\ phase # "exited" => exitCode = 0 - 1

\* C11 witness: the process without a key has exited with status 1
C11_Witness ==
  /\ API_KEY = << >>
  /\ phase = "exited"
  /\ exitCode = 1
  /\ registered = { }

\* C12: every remote call that has been issued carries exactly the headers
\* Authorization: Bearer <key> and Content-Type: application/json, where the
\* key is the non-empty key of the process, whatever the tool and method.
C12_AlwaysAuthenticated ==
  \A i \in Slots :
    inv[i].pc # "idle" =>
      /\ API_KEY # << >>
      /\ Len(inv[i].call.headers) = 2
      /\ inv[i].call.headers[1] = << << "A", "u", "t", "h", "o", "r", "i", "z", "a", "t", "i", "o", "n" >>, << "B", "e", "a", "r", "e", "r", " " >> \o API_KEY >>
      /\ inv[i].call.headers[2] = << << "C", "o", "n", "t", "e", "n", "t", "-", "T", "y", "p", "e" >>, << "a", "p", "p", "l", "i", "c", "a", "t", "i", "o", "n", "/", "j", "s", "o", "n" >> >>
      /\ API_KEY = << "k", "s", "k", "_", "1" >> => inv[i].call.headers[1][2] = << "B", "e", "a", "r", "e", "r", " ", "k", "s", "k", "_", "1" >>

\* C12 witness: a DELETE call in flight with the bearer key
C12_Witness ==
  /\ inv[1].pc = "fetch"
  /\ inv[1].call.method = "DELETE"
  /\ inv[1].call.headers[1] = << << "A", "u", "t", "h", "o", "r", "i", "z", "a", "t", "i", "o", "n" >>, << "B", "e", "a", "r", "e", "r", " ", "k", "s", "k", "_", "1" >> >>

\* ------------------------------------------------------------------------
\* Reading the URL of a call back
\* ------------------------------------------------------------------------
\* the elements of a sequence
Range(seq) == { seq[i] : i \in 1..Len(seq) }

\* the part of the URL after API_BASE
PathAndQuery(call) == SubSeq(call.url, Len(API_BASE) + 1, Len(call.url))

\* ... up to the first "?"
CallPath(call) ==
  IF IndexOf(PathAndQuery(call), "?") = 0 THEN PathAndQuery(call)
  ELSE SubSeq(PathAndQuery(call), 1, IndexOf(PathAndQuery(call), "?") - 1)

\* ... from the first "?" on, empty without one
CallQuery(call) ==
  IF IndexOf(PathAndQuery(call), "?") = 0 THEN << >>
  ELSE SubSeq(PathAndQuery(call), IndexOf(PathAndQuery(call), "?"), Len(PathAndQuery(call)))

\* sub occurs in s
Contains(s, sub) ==
  \E i \in 1..(Len(s) - Len(sub) + 1) : SubSeq(s, i, i + Len(sub) - 1) = sub

\* the entries of an argument object other than id
OtherArgs(args) == SelectSeq(args.v, LAMBDA e : e[1] # K.id)

\* the two tools whose other argument is the flag permanent
PermanentTools == { "delete_company", "delete_note" }

\* what C13 says of the identifier: it is a segment of the path, no query
\* parameter is named id and the body has no id member
IdOnlyInPath(r) ==
  /\ Get(r.args, K.id).v \in Range(Split(CallPath(r.call), "/"))
  /\ \A p \in Range(ParseQuery(CallQuery(r.call))) : p[1] # K.id
  /\ r.call.body.t = "string" => ~Contains(r.call.body.v, << "\"", "i", "d", "\"", ":" >>)

\* C13 as stated: for a tool that takes id, id is in the path only and every
\* other argument given is forwarded unchanged, all as the JSON body or all
\* as query parameters.  (The flag permanent is left to C14.)
C13_Original ==
  \A i \in Slots :
    (inv[i].pc # "idle" /\ HasKey(inv[i].args, K.id) /\ inv[i].op \notin PermanentTools) =>
      /\ IdOnlyInPath(inv[i])
      /\ IF inv[i].call.body.t = "string"
         THEN /\ inv[i].call.body.v = JSONstringify(Obj(OtherArgs(inv[i].args)), 0)
              /\ CallQuery(inv[i].call) = << >>
         ELSE Range(ParseQuery(CallQuery(inv[i].call)))
                = { << e[1], StringOf(e[2]) >> : e \in Range(OtherArgs(inv[i].args)) }

\* C13 as amended: for a tool that takes id, id is a segment of the path and
\* is neither a query parameter nor a member of the body; the other arguments
\* given are the members of the JSON body, unchanged, for the tools that send
\* one, and otherwise go through qs, which leaves out an argument whose value
\* is the empty string and forwards the others.
C13_IdOnlyInPath ==
  \A i \in Slots :
    (inv[i].pc # "idle" /\ HasKey(inv[i].args, K.id)) =>
      /\ IdOnlyInPath(inv[i])
      /\ IF inv[i].call.body.t = "string"
         THEN /\ inv[i].call.body.v = JSONstringify(Obj(OtherArgs(inv[i].args)), 0)
              /\ CallQuery(inv[i].call) = << >>
         ELSE inv[i].op \notin PermanentTools =>
                Range(ParseQuery(CallQuery(inv[i].call)))
                  = Range(QsExpected(OtherArgs(inv[i].args)))
      /\ (inv[i].op = "update_contact"
            /\ inv[i].args = Obj(<< << K.id, Str(Uuid1) >>, << K.email, Str(<< >>) >> >>))
           => /\ inv[i].call.url = API_BASE \o << "/", "c", "o", "n", "t", "a", "c", "t", "s", "/" >> \o Uuid1
              /\ inv[i].call.body = Str(<< "{", "\"", "e", "m", "a", "i", "l", "\"", ":", "\"", "\"", "}" >>)

\* C13 witness: get_contact_timeline called with an empty from and a limit
\* has issued GET /contacts/<id>/timeline?limit=<n>
C13_Witness ==
  /\ inv[1].pc = "fetch"
  /\ inv[1].op = "get_contact_timeline"
  /\ Get(inv[1].args, K.from) = Str(<< >>)
  /\ HasKey(inv[1].args, K.limit)
  /\ CallPath(inv[1].call) = << "/", "c", "o", "n", "t", "a", "c", "t", "s", "/" >> \o Uuid1 \o << "/", "t", "i", "m", "e", "l", "i", "n", "e" >>
  /\ CallQuery(inv[1].call) = << "?", "l", "i", "m", "i", "t", "=" >> \o NumberToString(MaxNum)

\* the path family of the two tools with the flag permanent
Family(op) == IF op = "delete_company" THEN << "/", "c", "o", "m", "p", "a", "n", "i", "e", "s", "/" >> ELSE << "/", "n", "o", "t", "e", "s", "/" >>

\* C14: delete_company and delete_note issue DELETE <family>/<id>?permanent=true
\* when permanent is true and DELETE <family>/<id> without a query string
\* when it is false or not given; the call has no body and its URL never
\* holds permanent=false.
C14_PermanentFlag ==
  \A i \in Slots :
    (inv[i].pc # "idle" /\ inv[i].op \in PermanentTools) =>
      /\ inv[i].call.method = "DELETE"
      /\ inv[i].call.body = Undefined
      /\ CallPath(inv[i].call) = Family(inv[i].op) \o Get(inv[i].args, K.id).v
      /\ CallQuery(inv[i].call) =
           IF HasKey(inv[i].args, K.permanent) /\ Get(inv[i].args, K.permanent) = Bool(TRUE)
           THEN << "?", "p", "e", "r", "m", "a", "n", "e", "n", "t", "=", "t", "r", "u", "e" >>
           ELSE << >>
      /\ ~Contains(inv[i].call.url, << "p", "e", "r", "m", "a", "n", "e", "n", "t", "=", "f", "a", "l", "s", "e" >>)
      /\ (inv[i].op = "delete_company"
            /\ inv[i].args = Obj(<< << K.id, Str(Uuid1) >>, << K.permanent, Bool(TRUE) >> >>))
           => inv[i].call.url = API_BASE \o << "/", "c", "o", "m", "p", "a", "n", "i", "e", "s", "/" >> \o Uuid1 \o << "?", "p", "e", "r", "m", "a", "n", "e", "n", "t", "=", "t", "r", "u", "e" >>

\* C14 witness: delete_note with permanent false has issued DELETE /notes/<id>
C14_Witness ==
  /\ inv[1].pc = "fetch"
  /\ inv[1].op = "delete_note"
  /\ Get(inv[1].args, K.permanent) = Bool(FALSE)
  /\ inv[1].call.method = "DELETE"
  /\ inv[1].call.url = API_BASE \o << "/", "n", "o", "t", "e", "s", "/" >> \o Uuid1

\* C15: a tool annotated readOnlyHint: true issues a GET call without a body
\* whatever its arguments, and so a tool that issues a POST, PATCH or DELETE
\* call is not annotated read-only.
C15_ReadOnlyIsGet ==
  \A i \in Slots :
    inv[i].pc # "idle" =>
      /\ inv[i].op \in registered
      /\ inv[i].op \in ReadOnlyTools =>
           inv[i].call.method = "GET" /\ inv[i].call.body = Undefined
      /\ inv[i].call.method \in { "POST", "PATCH", "DELETE" } => inv[i].op \notin ReadOnlyTools

\* C15 witness: the read-only tool search, given arguments, has issued a GET
\* call without a body
C15_Witness ==
  /\ inv[1].pc = "fetch"
  /\ inv[1].op = "search"
  /\ inv[1].op \in ReadOnlyTools
  /\ HasKey(inv[1].args, K.limit)
  /\ inv[1].call.method = "GET"
  /\ inv[1].call.body = Undefined

\* C16: invocations do not interfere.  A step changes at most one invocation
\* and leaves the others as they were; after any step, two invocations of the
\* same tool with the same arguments have each issued their own call, with
\* the same method, URL and body, and two invocations whose calls had the
\* same outcome have returned the same result, whatever else is in flight.
C16_NoInterference ==
  [][ \A i, j \in Slots :
        /\ (i # j /\ inv'[i] # inv[i]) => inv'[j] = inv[j]
        /\ inv'[i].pc # "idle" => inv'[i].ncalls = 1
        /\ (inv'[i].pc # "idle" /\ inv'[j].pc # "idle"
              /\ inv'[i].op = inv'[j].op /\ inv'[i].args = inv'[j].args)
             => inv'[i].call = inv'[j].call
        /\ (inv'[i].pc = "done" /\ inv'[j].pc = "done" /\ inv'[i].outcome = inv'[j].outcome)
             => inv'[i].result = inv'[j].result
        /\ (inv[i].pc # "idle" /\ inv'[i].pc # "idle")
             => inv'[i].call = inv[i].call /\ inv'[i].op = inv[i].op /\ inv'[i].args = inv[i].args
    ]_vars

\* C16 witness: the read-only list_contacts invoked twice with the same
\* arguments; the first has returned, the second is in flight with its own
\* call of the same method and URL
C16_Witness ==
  /\ inv[1].op = "list_contacts" /\ inv[2].op = "list_contacts"
  /\ inv[1].args = inv[2].args
  /\ inv[1].pc = "done" /\ inv[2].pc = "fetch"
  /\ inv[1].ncalls = 1 /\ inv[2].ncalls = 1
  /\ inv[1].call.method = "GET" /\ inv[2].call.method = "GET"
  /\ inv[1].call.url = inv[2].call.url
  /\ CallQuery(inv[2].call) = << "?", "l", "i", "m", "i", "t", "=" >> \o NumberToString(MaxNum) \o << "&", "i", "n", "c", "l", "u", "d", "e", "_", "l", "a", "s", "t", "_", "i", "n", "t", "e", "r", "a", "c", "t", "i", "o", "n", "=", "f", "a", "l", "s", "e" >>

Pending(r) == r.pc \in { "fetch", "json" }

\* C18 as stated: an invocation whose call is pending has no result and no
\* outcome; it leaves that state only when the outcome of its call arrives,
\* and then it has returned exactly one rendered result; while it is
\* pending another invocation can start and another pending call can be
\* answered.
C18_WaitsThenReturns ==
  /\ [](\A i \in Slots : Pending(inv[i]) => inv[i].result = NoResult /\ inv[i].outcome = NoOutcome)
  /\ [](\A i, j \in Slots :
          (i # j /\ Pending(inv[i])) =>
            /\ inv[j].pc = "idle" => ENABLED Invoke(j, "get_contact", Obj(<< << K.id, Str(Uuid1) >> >>))
            /\ inv[j].pc = "fetch" => ENABLED FetchResolves(j, 200))
  /\ [][ \A i \in Slots :
           (Pending(inv[i]) /\ ~Pending(inv'[i])) =>
             /\ inv'[i].pc = "done"
             /\ inv'[i].outcome # NoOutcome
             /\ OneTextBlock(inv'[i].result)
       ]_vars

\* the Failure that fetchApi makes of a transport error with the text msg
NetworkError(msg) ==
  Obj(<< << K.error, Obj(<< << K.code, Str(<< "N", "E", "T", "W", "O", "R", "K", "_", "E", "R", "R", "O", "R" >>) >>, << K.message, Str(msg) >> >>) >> >>)

\* C19: when the response arrives but its body is not JSON, fetchApi returns
\* the NETWORK_ERROR Failure with the text of the parse error, as it does
\* for a transport error; and whatever the HTTP status, a parsed body is
\* returned as it is and is a Failure exactly by its own error field.
C19_BadJsonIsNetworkError ==
  \A i \in Slots :
    inv[i].pc = "done" =>
      /\ inv[i].outcome.kind = "badjson" =>
           /\ inv[i].status \in HttpStatuses
           /\ inv[i].api = NetworkError(<< "S", "y", "n", "t", "a", "x", "E", "r", "r", "o", "r", ":", " ", "U", "n", "e", "x", "p", "e", "c", "t", "e", "d", " ", "e", "n", "d", " ", "o", "f", " ", "J", "S", "O", "N", " ", "i", "n", "p", "u", "t" >>)
           /\ inv[i].result =
                Returned(<< TextBlock(<< "E", "r", "r", "o", "r", ":", " ", "S", "y", "n", "t", "a", "x", "E", "r", "r", "o", "r", ":", " ", "U", "n", "e", "x", "p", "e", "c", "t", "e", "d", " ", "e", "n", "d", " ", "o", "f", " ", "J", "S", "O", "N", " ", "i", "n", "p", "u", "t" >>) >>)
      /\ inv[i].outcome.kind = "reject" =>
           /\ inv[i].status = 0
           /\ \E e \in TransportErrors :
                inv[i].api = NetworkError(IF e.message = << >> THEN e.name
                                          ELSE e.name \o << ":", " " >> \o e.message)
      /\ inv[i].outcome.kind = "json" =>
           /\ inv[i].status \in HttpStatuses
           /\ inv[i].api = inv[i].outcome.body
           /\ ErrorBlock(inv[i].result)
                <=> (HasKey(inv[i].outcome.body, K.error)
                       /\ IsSet(Get(inv[i].outcome.body, K.error)))

\* C19 witness: a 404 response whose body is not JSON has been returned as
\* the NETWORK_ERROR Failure
C19_Witness ==
  /\ inv[1].pc = "done"
  /\ inv[1].status = 404
  /\ inv[1].outcome.kind = "badjson"
  /\ Get(Get(inv[1].api, K.error), K.code) = Str(<< "N", "E", "T", "W", "O", "R", "K", "_", "E", "R", "R", "O", "R" >>)
  /\ ErrorBlock(inv[1].result)

\* the argument that a tool splices into the path
PathArgKey(op) == IF op = "get_day" THEN K.date ELSE K.id

\* the path segments of the call that a tool issues when its path argument,
\* if it has one, is a UUID
TemplateSegments(op, args) ==
  Split(CallPath(Handler(op, IF HasKey(args, PathArgKey(op))
                             THEN Obj(<< << PathArgKey(op), Str(Uuid1) >> >>)
                             ELSE Obj(<< >>))), "/")

\* C20 as stated: for every tool and schema-valid arguments, the path of the
\* issued call is the path template of the tool with the path argument as
\* exactly one segment, and every parameter of the query string is an
\* argument of the tool encoded by qs, or the literal permanent=true.
C20_UrlShape ==
  \A i \in Slots :
    inv[i].pc # "idle" =>
      LET r == inv[i]
          segs == Split(CallPath(r.call), "/")
          tmpl == TemplateSegments(r.op, r.args)
      IN  /\ Len(segs) = Len(tmpl)
          /\ \A k \in 1..Len(segs) :
               \/ segs[k] = tmpl[k]
               \/ tmpl[k] = Uuid1 /\ segs[k] = Get(r.args, PathArgKey(r.op)).v
          /\ \A p \in Range(RawPairs(CallQuery(r.call))) :
               \/ p = << << "p", "e", "r", "m", "a", "n", "e", "n", "t" >>, << "t", "r", "u", "e" >> >>
               \/ /\ PercentEncoded(p[1]) /\ PercentEncoded(p[2])
                  /\ HasKey(r.args, PercentDecode(p[1]))
                  /\ PercentDecode(p[1]) # PathArgKey(r.op)

====
